---- MODULE Spec2Model ----
(***************************************************************************)
(* Quote record lifecycle and reference allocation of the Guerilla         *)
(* Teaching site:                                                          *)
(*   - generateReferenceNumber and the POST /api/quotes and                *)
(*     GET /api/quotes handlers of the worker (src/worker/email.js), over  *)
(*     the D1 table quotes (schema: src/unnamed/part_002);                 *)
(*   - the database service of the backend                                 *)
(*     (src/backend/src/config/azure-database.ts), over the PostgreSQL     *)
(*     table quotes and the in-memory devQuoteStorage.                     *)
(* Strings are TLA+ strings: a reference number is built character by      *)
(* character as the code builds it.                                        *)
(***************************************************************************)
EXTENDS Integers, Sequences, FiniteSets, TLC

(* ------------------------------ bounds -------------------------------- *)

\* The calendar year at the start of a run, and how many new years a run sees.
FirstYear == 2025
MaxYearTicks == 1

\* Sequence numbers 1..MaxSeq of each modelled year make up the pool the
\* allocator's small inputs are drawn from.
MaxSeq == 2

\* Concurrent POST /api/quotes requests the worker serves in a run.
NumProcs == 2

\* GET requests the worker receives in a run; they may all be in flight at
\* once.
MaxGets == 2

\* The stores grow without limit; a run of the backend calls createQuote at
\* most this many times.
MaxCreates == 2

\* The backend's clock is read in whole seconds; a run of the backend sees
\* the seconds 0..MaxNow of one minute.
MaxNow == 1

\* A run of the backend makes at most this many calls of the module's
\* functions, of which at most MaxInFlight wait for connect(), query() or
\* end() at a time.
MaxCalls == 4
MaxInFlight == 2

(* ----------------------- the reference allocator ---------------------- *)

\* padStart(4, '0'): the target length of the sequence part.
PadWidth == 4

\* A padding that also cuts: ('0000' + s).slice(-4), the last n characters.
RECURSIVE PadStartSlice(_, _, _)
PadStartSlice(s, n, c) ==
    IF Len(s) > n THEN SubSeq(s, Len(s) - n + 1, Len(s))
    ELSE IF Len(s) = n THEN s
    ELSE PadStartSlice(c \o s, n, c)

\* String.prototype.padStart(n, c) for a one-character filler: the string is
\* returned as it is once it has n characters, and is never cut.
RECURSIVE PadStart(_, _, _)
PadStart(s, n, c) == IF Len(s) >= n THEN s ELSE PadStart(c \o s, n, c)

\* `GT-${year}-${counter.toString().padStart(4, '0')}`
FormatReference(yr, counter) ==
    "GT-" \o ToString(yr) \o "-" \o PadStart(ToString(counter), PadWidth, "0")

\* The do/while loop, entered with the counter's current value: format the
\* candidate, bump the counter, go round again while the candidate is used.
RECURSIVE DoWhile(_, _, _)
DoWhile(existingRefs, yr, counter) ==
    LET reference == FormatReference(yr, counter)
    IN  IF reference \in existingRefs
        THEN DoWhile(existingRefs, yr, counter + 1)
        ELSE reference

\* generateReferenceNumber(existingRefs), with the year new Date() reports.
generateReferenceNumber(yr, existingRefs) == DoWhile(existingRefs, yr, 1)

(* ------------------------- reading numbers ---------------------------- *)

Digits == {"0", "1", "2", "3", "4", "5", "6", "7", "8", "9"}
DigitValue(c) == CHOOSE d \in 0 .. 9 : ToString(d) = c

\* The number a string of decimal digits writes.
RECURSIVE DecimalValue(_)
DecimalValue(s) ==
    IF Len(s) = 0 THEN 0
    ELSE 10 * DecimalValue(SubSeq(s, 1, Len(s) - 1)) + DigitValue(SubSeq(s, Len(s), Len(s)))

(* ------------------------------- state -------------------------------- *)

VARIABLES
    year,             \* what new Date().getFullYear() answers now
    \* one call of generateReferenceNumber, one loop iteration per step
    allocPc,          \* "idle" | "loop" | "done"
    allocArg,         \* its argument existingRefs, see allocRefs
    allocYear,        \* const year
    allocCounter,     \* let counter
    allocReference,   \* let reference (NoRef while undefined)
    \* the worker: the D1 table and one POST /api/quotes request per process
    d1Quotes,         \* the rows of table quotes
    uuidSeq,          \* how many UUIDs generateUUID has drawn
    pc,               \* where each request stands in the handler
    body,             \* const body = await request.json()
    refNumbers,       \* const refNumbers
    quote,            \* quoteId, referenceNumber, totalAmount: the quote in the making
    inserts,          \* how many INSERT statements the request has run
    mail,             \* what became of the two notification sends
    response,         \* the Response the handler returned
    gets,             \* the GET requests that await their SELECT or its answer
    getSeq,           \* how many GET requests the worker has received
    listQuery,        \* the search parameters of the GET /api/quotes answered last
    listResponse,     \* the Response it was answered with
    lookupPath,       \* pathname.split('/')[3] of the GET /api/quotes/:reference answered last
    lookupResponse,   \* the Response it was answered with
    \* the backend's database service
    pgPool,           \* let pgPool: TRUE for a Pool, FALSE for null
    ending,           \* the numbers of the closeDatabaseConnection calls that await end()
    flight,           \* the calls that wait for the pool: for connect() or for a query
    calls,            \* how many calls of the module's functions a run has made
    pgQuotes,         \* the rows of the PostgreSQL table quotes, oldest first
    devQuoteStorage,  \* const devQuoteStorage: QuoteStorage[]
    devObjects,       \* which object each element of devQuoteStorage is
    ret,              \* what the call that was over last resolved or rejected with
    creates,          \* how many times createQuote has been called
    everCreated,      \* per store, the reference numbers of all quotes ever created in it
    now,              \* the second new Date() reports to the backend
    args,             \* the arguments of that call, its number and the branch that served it
    served,           \* per store, the calls it served and their outcomes, in order
    checkedOut        \* how many clients of the pool are checked out

getVars == <<gets, getSeq, listQuery, listResponse, lookupPath, lookupResponse>>
allocVars == <<allocPc, allocArg, allocYear, allocCounter, allocReference>>
workerVars ==
    <<d1Quotes, uuidSeq, pc, body, refNumbers, quote, inserts, mail, response,
      getVars>>
repoVars == <<pgPool, ending, flight, calls, pgQuotes, devQuoteStorage, devObjects, ret, creates, everCreated, now, args,
              served, checkedOut>>
vars == <<year, allocVars, workerVars, repoVars>>

\* let reference; before the first assignment
NoRef == "undefined"

Years == FirstYear .. (FirstYear + MaxYearTicks)

\* Every sequence number that fits the pad width, used up, per year.
FullYears ==
    [ y \in Years |-> { FormatReference(y, k) : k \in 1 .. (10 ^ PadWidth - 1) } ]
FullYear(yr) == FullYears[yr]

\* Strings that look like references and are none the allocator formats.
OddRefs == { "GT-" \o ToString(FirstYear) \o "-1",
             "GT-" \o ToString(FirstYear) \o "-00001" }

RefPool == { FormatReference(y, k) : y \in Years, k \in 1 .. MaxSeq }

\* The arrays the allocator is called with. An array is written as the
\* strings it holds beside, when full is set, all of FullYear of the call's year.
AllocInputs ==
    { [full |-> FALSE, extra |-> e] : e \in SUBSET (RefPool \cup OddRefs) }
      \cup { [full |-> TRUE, extra |-> e] : e \in {{}, RefPool} }

\* The elements of the array existingRefs of the call.
allocRefs ==
    IF allocArg.full THEN FullYear(allocYear) \cup allocArg.extra ELSE allocArg.extra

\* existingRefs.includes(reference)
Includes(arg, yr, reference) ==
    reference \in arg.extra \/ (arg.full /\ reference \in FullYear(yr))

(* ----------------------- requests and responses ---------------------- *)

Procs == 1 .. NumProcs

\* JSON values carry their type, as typeof / Array.isArray see it.
JsUndefined == [type |-> "undefined"]
JsArray(elems) == [type |-> "array", elems |-> elems]
JsObject(fields) == [type |-> "object", fields |-> fields]

\* A negation that holds of no value: every check written !v lets v through.
FalsyNever(v) == FALSE

\* !v for the values a body holds: undefined is falsy, arrays and objects are not.
Falsy(v) == v.type = "undefined"
IsArray(v) == v.type = "array"

\* JSON.stringify: the text column holds the serialized value, not the value.
JSONstringify(v) == <<"json", v>>

CourseItem == [name |-> "Course", price |-> 350, quantity |-> 2]
JoDoe == JsObject([firstName |-> "Jo", lastName |-> "Doe", email |-> "jo@example.com"])

ValidBody == [items |-> JsArray(<<CourseItem>>), customer |-> JoDoe]
EmptyItemsBody == [items |-> JsArray(<<>>), customer |-> JoDoe]
NoItemsBody == [items |-> JsUndefined, customer |-> JoDoe]
NoCustomerBody == [items |-> JsArray(<<CourseItem>>), customer |-> JsUndefined]

\* items: {} -- present, and no array
ObjectItemsBody == [items |-> JsObject([name |-> "Course"]), customer |-> JoDoe]

\* Bodies whose items or customer are present and carry values a form would
\* not send: a negative price, a quantity of 0, no email, an email without @.
NegativePriceItem == [name |-> "Course", price |-> -350, quantity |-> 2]
ZeroQuantityItem == [name |-> "Course", price |-> 350, quantity |-> 0]
NegativePriceBody == [items |-> JsArray(<<CourseItem, NegativePriceItem>>), customer |-> JoDoe]
ZeroQuantityBody == [items |-> JsArray(<<ZeroQuantityItem>>), customer |-> JoDoe]
NoEmailBody ==
    [items |-> JsArray(<<CourseItem>>),
     customer |-> JsObject([firstName |-> "Jo", lastName |-> "Doe"])]
BadEmailBody ==
    [items |-> JsArray(<<CourseItem>>),
     customer |-> JsObject([firstName |-> "Jo", lastName |-> "Doe", email |-> "jo.example.com"])]

\* A body with two items of different prices and quantities.
BookItem == [name |-> "Book", price |-> 120, quantity |-> 3]
TwoItemsBody == [items |-> JsArray(<<CourseItem, BookItem>>), customer |-> JoDoe]

\* A body that names a status of its own.
StatusBody ==
    [items |-> JsArray(<<CourseItem>>), customer |-> JoDoe, status |-> "approved"]

\* The bodies of the concurrent requests, and the wider set the requests
\* served one after another are drawn from.
Bodies == {ValidBody, EmptyItemsBody, NoItemsBody, NoCustomerBody, ObjectItemsBody}
SubmitBodies ==
    Bodies \cup {TwoItemsBody, StatusBody, NegativePriceBody, ZeroQuantityBody,
                 NoEmailBody, BadEmailBody}

NoBody == [items |-> JsUndefined, customer |-> JsUndefined]
NoQuote == [id |-> "", referenceNumber |-> NoRef, totalAmount |-> 0]
NoMail == [import |-> "none", admin |-> "none", customer |-> "none"]
NoResponse == [status |-> 0]

\* jsonResponse(data, status)
jsonResponse(data, status) == [status |-> status, data |-> data]

\* A reduce that adds the prices and leaves the quantities out.
RECURSIVE ReducePrices(_, _)
ReducePrices(elems, sum) ==
    IF elems = <<>> THEN sum
    ELSE ReducePrices(Tail(elems), sum + Head(elems).price)

\* items.reduce((sum, item) => sum + (item.price * item.quantity), 0)
RECURSIVE Reduce(_, _)
Reduce(elems, sum) ==
    IF elems = <<>> THEN sum
    ELSE Reduce(Tail(elems), sum + (Head(elems).price * Head(elems).quantity))

\* url.searchParams.get(name): the text of the parameter, or null.
NoParam == [present |-> FALSE, text |-> ""]
Param(text) == [present |-> TRUE, text |-> text]

\* generateUUID: 122 random bits; a draw is taken to differ from every earlier one.
generateUUID(n) == "uuid-" \o ToString(n)

Init ==
    /\ year = FirstYear
    /\ allocPc = "idle"
    /\ allocArg = [full |-> FALSE, extra |-> {}]
    /\ allocYear = FirstYear
    /\ allocCounter = 1
    /\ allocReference = NoRef
    /\ d1Quotes = {}
    /\ uuidSeq = 0
    /\ pc = [p \in Procs |-> "idle"]
    /\ body = [p \in Procs |-> NoBody]
    /\ refNumbers = [p \in Procs |-> {}]
    /\ quote = [p \in Procs |-> NoQuote]
    /\ inserts = [p \in Procs |-> 0]
    /\ mail = [p \in Procs |-> NoMail]
    /\ response = [p \in Procs |-> NoResponse]
    /\ gets = {}
    /\ getSeq = 0
    /\ listQuery = [limit |-> NoParam, offset |-> NoParam]
    /\ listResponse = NoResponse
    /\ lookupPath = ""
    /\ lookupResponse = NoResponse
    /\ pgPool = FALSE
    /\ pgQuotes = <<>>
    /\ devQuoteStorage = <<>>
    /\ devObjects = <<>>
    /\ ret = [op |-> "none", kind |-> "none"]
    /\ creates = 0
    /\ everCreated = [pg |-> {}, dev |-> {}]
    /\ now = 0
    /\ args = [op |-> "none"]
    /\ served = [pg |-> <<>>, dev |-> <<>>]
    /\ checkedOut = 0
    /\ ending = {}
    /\ flight = {}
    /\ calls = 0

\* The clock passes midnight of 31 December.
NewYear ==
    /\ year < FirstYear + MaxYearTicks
    /\ year' = year + 1
    /\ UNCHANGED <<allocVars, workerVars, repoVars>>

(* -------------- generateReferenceNumber, step by step ----------------- *)

\* function entry: const year = new Date().getFullYear(); let counter = 1;
AllocCall ==
    /\ allocPc = "idle"
    /\ \E arg \in AllocInputs : allocArg' = arg
    /\ allocYear' = year
    /\ allocCounter' = 1
    /\ allocReference' = NoRef
    /\ allocPc' = "loop"
    /\ UNCHANGED <<year, workerVars, repoVars>>

\* The same pass with the counter bumped before the candidate is formatted.
AllocLoopIncrementFirst ==
    /\ allocPc = "loop"
    /\ allocCounter' = allocCounter + 1
    /\ allocReference' = FormatReference(allocYear, allocCounter')
    /\ allocPc' = IF Includes(allocArg, allocYear, allocReference') THEN "loop" ELSE "done"
    /\ UNCHANGED <<year, allocArg, allocYear, workerVars, repoVars>>

\* The same pass with the counter left as it was.
AllocLoopSameCounter ==
    /\ allocPc = "loop"
    /\ allocReference' = FormatReference(allocYear, allocCounter)
    /\ allocCounter' = allocCounter
    /\ allocPc' = IF Includes(allocArg, allocYear, allocReference') THEN "loop" ELSE "done"
    /\ UNCHANGED <<year, allocArg, allocYear, workerVars, repoVars>>

\* One pass of the do body and its while test.
AllocLoop ==
    /\ allocPc = "loop"
    /\ allocReference' = FormatReference(allocYear, allocCounter)
    /\ allocCounter' = allocCounter + 1
    /\ allocPc' = IF Includes(allocArg, allocYear, allocReference') THEN "loop" ELSE "done"
    /\ UNCHANGED <<year, allocArg, allocYear, workerVars, repoVars>>

NextAlloc == NewYear \/ AllocCall \/ AllocLoop

(* --------------------- the D1 table quotes ---------------------------- *)

\* id TEXT PRIMARY KEY, reference_number TEXT UNIQUE NOT NULL: the INSERT of
\* row is accepted when no stored row has its id or its reference_number.
D1Accepts(rows, row) ==
    \A r \in rows : r.id # row.id /\ r.reference_number # row.reference_number

\* created_at DATETIME DEFAULT CURRENT_TIMESTAMP, updated_at likewise: the
\* columns the INSERT leaves out, as far as the worker's clock tells the time.
D1Defaults(row) == row @@ [created_at |-> year, updated_at |-> year]

\* SELECT reference_number FROM quotes, mapped to r.reference_number
D1References(rows) == { r.reference_number : r \in rows }

(* ------------------ POST /api/quotes, await by await ------------------ *)

\* The D1 binding is taken to answer every statement: a statement fails only
\* by a constraint of the table. Each process serves one request.

\* The handler returns: the request is over.
Return(p, resp) ==
    /\ response' = [response EXCEPT ![p] = resp]
    /\ pc' = [pc EXCEPT ![p] = "done"]

\* await request.json(), then the two checks of the body; a body that passes
\* them sends the SELECT of the reference numbers.
ReceiveFrom(p, bodies) ==
    /\ pc[p] = "idle"
    /\ \E b \in bodies :
         /\ body' = [body EXCEPT ![p] = b]
         /\ IF Falsy(b.items) \/ ~IsArray(b.items) \/ Len(b.items.elems) = 0
            THEN Return(p, jsonResponse([success |-> FALSE,
                     message |-> "Quote must have at least one item"], 400))
            ELSE IF Falsy(b.customer)
            THEN Return(p, jsonResponse([success |-> FALSE,
                     message |-> "Customer information is required"], 400))
            ELSE /\ pc' = [pc EXCEPT ![p] = "list"]
                 /\ UNCHANGED response
    /\ UNCHANGED <<repoVars, getVars, year, allocVars, d1Quotes, uuidSeq, refNumbers, quote, inserts, mail>>

\* A request arrives while others may be in flight.
Receive(p) == ReceiveFrom(p, Bodies)

\* A request arrives when the requests before it have been answered.
ReceiveNext(p) ==
    /\ \A q \in Procs : q < p => pc[q] = "done"
    /\ ReceiveFrom(p, SubmitBodies)

\* The SELECT runs: refNumbers is what the table holds at this moment.
ListReferences(p) ==
    /\ pc[p] = "list"
    /\ refNumbers' = [refNumbers EXCEPT ![p] = D1References(d1Quotes)]
    /\ pc' = [pc EXCEPT ![p] = "allocate"]
    /\ UNCHANGED <<repoVars, getVars, year, allocVars, d1Quotes, uuidSeq, body, quote, inserts, mail, response>>

\* The handler resumes with the list: totalAmount, referenceNumber and quoteId
\* are computed and the INSERT is sent.
Allocate(p) ==
    /\ pc[p] = "allocate"
    /\ uuidSeq' = uuidSeq + 1
    /\ quote' = [quote EXCEPT ![p] =
                   [id |-> generateUUID(uuidSeq'),
                    referenceNumber |-> generateReferenceNumber(year, refNumbers[p]),
                    totalAmount |-> Reduce(body[p].items.elems, 0)]]
    /\ pc' = [pc EXCEPT ![p] = "insert"]
    /\ UNCHANGED <<repoVars, getVars, year, allocVars, d1Quotes, body, refNumbers, inserts, mail, response>>

\* A row whose status is the one the body names, when it names one.
QuoteRowStatusOfBody(p) ==
    [id |-> quote[p].id,
     reference_number |-> quote[p].referenceNumber,
     customer_data |-> JSONstringify(body[p].customer),
     items |-> JSONstringify(body[p].items),
     total_amount |-> quote[p].totalAmount,
     currency |-> "ZAR",
     status |-> IF "status" \in DOMAIN body[p] THEN body[p].status ELSE "pending"]

\* The row the INSERT binds.
QuoteRow(p) ==
    [id |-> quote[p].id,
     reference_number |-> quote[p].referenceNumber,
     customer_data |-> JSONstringify(body[p].customer),
     items |-> JSONstringify(body[p].items),
     total_amount |-> quote[p].totalAmount,
     currency |-> "ZAR",
     status |-> "pending"]

\* An outer catch that answers as if the quote had been created.
CreateFailedAnswersCreated ==
    jsonResponse([success |-> TRUE, message |-> "Quote created successfully"], 201)

\* What the outer catch answers, whatever was thrown.
CreateFailed ==
    jsonResponse([success |-> FALSE, message |-> "Failed to create quote"], 500)

\* A handler that logs a failed INSERT and carries on to the notifications.
OuterCatchCarriesOn(p) ==
    /\ pc' = [pc EXCEPT ![p] = "import"]
    /\ UNCHANGED response

\* } catch (error) { ... return jsonResponse({...}, 500) }: the handler is over.
OuterCatch(p) == Return(p, CreateFailed)

\* The INSERT runs. A constraint violation throws into the outer catch, which
\* answers 500; there is no second attempt.
Insert(p) ==
    /\ pc[p] = "insert"
    /\ inserts' = [inserts EXCEPT ![p] = @ + 1]
    /\ IF D1Accepts(d1Quotes, QuoteRow(p))
       THEN /\ d1Quotes' = d1Quotes \cup {D1Defaults(QuoteRow(p))}
            /\ pc' = [pc EXCEPT ![p] = "import"]
            /\ UNCHANGED response
       ELSE /\ OuterCatch(p)
            /\ UNCHANGED d1Quotes
    /\ UNCHANGED <<repoVars, getVars, year, allocVars, uuidSeq, body, refNumbers, quote, mail>>

\* const quote = {...}; the object the handler answers with.
QuoteObject(p) ==
    [id |-> quote[p].id,
     referenceNumber |-> quote[p].referenceNumber,
     customer |-> body[p].customer,
     items |-> body[p].items,
     totalAmount |-> quote[p].totalAmount,
     currency |-> "ZAR",
     status |-> "pending"]

\* return jsonResponse({success: true, quote, ...}, 201)
Created(p) ==
    Return(p, jsonResponse([success |-> TRUE, quote |-> QuoteObject(p),
                            message |-> "Quote created successfully"], 201))

\* Without the inner try a throw of a send would land in the outer catch.
EmailCatchOuter(p) == Return(p, CreateFailed)

\* A throw inside the inner try lands in its catch, which warns and falls
\* through to the 201.
EmailCatch(p) == Created(p)

\* await import('./email.js')
ImportEmail(p) ==
    /\ pc[p] = "import"
    /\ \E ok \in BOOLEAN :
         IF ok
         THEN /\ mail' = [mail EXCEPT ![p].import = "loaded"]
              /\ pc' = [pc EXCEPT ![p] = "notifyAdmin"]
              /\ UNCHANGED response
         ELSE /\ mail' = [mail EXCEPT ![p].import = "failed"]
              /\ EmailCatch(p)
    /\ UNCHANGED <<repoVars, getVars, year, allocVars, d1Quotes, uuidSeq, body, refNumbers, quote, inserts>>

\* await sendQuoteNotification(quote, env): resolves, or throws
\* 'Failed to send email'.
NotifyAdmin(p) ==
    /\ pc[p] = "notifyAdmin"
    /\ \E ok \in BOOLEAN :
         IF ok
         THEN /\ mail' = [mail EXCEPT ![p].admin = "sent"]
              /\ pc' = [pc EXCEPT ![p] = "notifyCustomer"]
              /\ UNCHANGED response
         ELSE /\ mail' = [mail EXCEPT ![p].admin = "failed"]
              /\ EmailCatch(p)
    /\ UNCHANGED <<repoVars, getVars, year, allocVars, d1Quotes, uuidSeq, body, refNumbers, quote, inserts>>

\* await sendCustomerConfirmation(quote, env): resolves, or throws
\* 'Failed to send customer email'; either way the handler answers next.
NotifyCustomer(p) ==
    /\ pc[p] = "notifyCustomer"
    /\ \E ok \in BOOLEAN :
         IF ok
         THEN /\ mail' = [mail EXCEPT ![p].customer = "sent"]
              /\ Created(p)
         ELSE /\ mail' = [mail EXCEPT ![p].customer = "failed"]
              /\ EmailCatch(p)
    /\ UNCHANGED <<repoVars, getVars, year, allocVars, d1Quotes, uuidSeq, body, refNumbers, quote, inserts>>

(* ------------------------- GET /api/quotes ---------------------------- *)

\* limit < 1 || limit > 100, and the default of limit
MaxLimit == 100
WorkerDefaultLimit == 50

\* Numbers as parseInt yields them: NaN, or an integer.
NaN == [nan |-> TRUE, value |-> 0]
Num(n) == [nan |-> FALSE, value |-> n]

\* How many characters at the head of s are decimal digits.
RECURSIVE DigitPrefix(_)
DigitPrefix(s) ==
    IF Len(s) > 0 /\ SubSeq(s, 1, 1) \in Digits
    THEN 1 + DigitPrefix(SubSeq(s, 2, Len(s)))
    ELSE 0

\* parseInt(url.searchParams.get(name)) for texts without blanks, + or 0x:
\* an optional minus and the digits that follow it; NaN when there is no
\* digit there, and for null.
ParseInt(param) ==
    IF ~param.present THEN NaN
    ELSE LET text == param.text
             minus == Len(text) > 0 /\ SubSeq(text, 1, 1) = "-"
             rest == IF minus THEN SubSeq(text, 2, Len(text)) ELSE text
             n == DigitPrefix(rest)
         IN  IF n = 0 THEN NaN
             ELSE Num((IF minus THEN -1 ELSE 1) * DecimalValue(SubSeq(rest, 1, n)))

\* x || d for a number x: NaN and 0 are falsy.
OrElse(x, d) == IF x.nan \/ x.value = 0 THEN d ELSE x.value

\* The search parameters of the requests.
ListQueries ==
    { [limit |-> NoParam, offset |-> NoParam],
      [limit |-> Param("1"), offset |-> Param("0")],
      [limit |-> Param("1"), offset |-> Param("1")],
      [limit |-> Param("2"), offset |-> Param("-1")],
      [limit |-> Param("0"), offset |-> NoParam],
      [limit |-> Param("-1"), offset |-> NoParam],
      [limit |-> Param("101"), offset |-> NoParam],
      [limit |-> Param("abc"), offset |-> NoParam] }

\* SELECT * FROM quotes ORDER BY created_at DESC: the orders of the rows in
\* which no row comes before a row with a later created_at.
D1OrderByCreatedAtDesc(rows) ==
    LET n == Cardinality(rows)
    IN  { seq \in [1 .. n -> rows] :
            /\ \A i, j \in 1 .. n : i # j => seq[i] # seq[j]
            /\ \A i, j \in 1 .. n : i < j => seq[i].created_at >= seq[j].created_at }

\* LIMIT ? OFFSET ? of SQLite with a limit of 1 or more: a negative offset
\* counts as 0.
D1LimitOffset(rows, limit, offset) ==
    LET skip == IF offset < 0 THEN 0 ELSE offset
    IN  SubSeq(rows, skip + 1, IF skip + limit < Len(rows) THEN skip + limit ELSE Len(rows))

\* JSON.parse of a text JSON.stringify wrote
JSONparse(text) == text[2]

\* ({...quote, customer, items, referenceNumber, totalAmount, createdAt}): a
\* key written later in the literal replaces the row's own, as items does.
ListedQuote(row) ==
    [customer |-> JSONparse(row.customer_data),
     items |-> JSONparse(row.items),
     referenceNumber |-> row.reference_number,
     totalAmount |-> row.total_amount,
     createdAt |-> row.created_at] @@ row

\* A GET request in flight: its number, its route, where it waits, what it
\* was sent with and, once its SELECT has run, the rows the SELECT saw.
Get(n, route, query, limit, offset, reference) ==
    [n |-> n, route |-> route, pc |-> "select", query |-> query, limit |-> limit,
     offset |-> offset, reference |-> reference, rows |-> <<>>]

GetFrame ==
    UNCHANGED <<repoVars, year, allocVars, d1Quotes, uuidSeq, pc, body, refNumbers,
                quote, inserts, mail, response>>

\* GET /api/quotes is received: limit and offset are parsed and tested, and
\* either the 400 is returned or the SELECT is sent and the handler waits.
ListQuotes ==
    /\ getSeq < MaxGets
    /\ getSeq' = getSeq + 1
    /\ \E query \in ListQueries :
         LET limit == OrElse(ParseInt(query.limit), WorkerDefaultLimit)
             offset == OrElse(ParseInt(query.offset), 0)
         IN  IF limit < 1 \/ limit > MaxLimit
             THEN /\ listQuery' = query
                  /\ listResponse' =
                       jsonResponse([success |-> FALSE,
                                     message |-> "Limit must be between 1 and 100"], 400)
                  /\ UNCHANGED gets
             ELSE /\ gets' = gets \cup {Get(getSeq', "list", query, limit, offset, "")}
                  /\ UNCHANGED <<listQuery, listResponse>>
    /\ UNCHANGED <<lookupPath, lookupResponse>>
    /\ GetFrame

\* The SELECT of a list request runs: its rows are those the table holds at
\* this moment.
ListSelect ==
    /\ \E g \in gets :
         /\ g.route = "list"
         /\ g.pc = "select"
         /\ \E sorted \in D1OrderByCreatedAtDesc(d1Quotes) :
              gets' = (gets \ {g}) \cup
                        {[g EXCEPT !.pc = "resume",
                                   !.rows = D1LimitOffset(sorted, g.limit, g.offset)]}
    /\ UNCHANGED <<getSeq, listQuery, listResponse, lookupPath, lookupResponse>>
    /\ GetFrame

\* The handler of a list request resumes after its await and answers with
\* the rows its SELECT saw.
ListAnswer ==
    /\ \E g \in gets :
         /\ g.route = "list"
         /\ g.pc = "resume"
         /\ gets' = gets \ {g}
         /\ listQuery' = g.query
         /\ LET quotes == [i \in 1 .. Len(g.rows) |-> ListedQuote(g.rows[i])]
            IN  listResponse' =
                  jsonResponse([success |-> TRUE,
                                quotes |-> quotes,
                                pagination |-> [limit |-> g.limit,
                                                offset |-> g.offset,
                                                count |-> Len(quotes)]], 200)
    /\ UNCHANGED <<getSeq, lookupPath, lookupResponse>>
    /\ GetFrame

(* -------------------- GET /api/quotes/:reference ---------------------- *)

\* /^GT-\\d{4}-\\d{4}$/.test(reference): in the literal as the file has it
\* each \\ stands for one backslash and d{4} for four letters d.
RegexTest(reference) ==
    reference = "GT-\\dddd-\\dddd"

\* The path parameters of the requests: the references of the stored quotes,
\* and texts that are references of no quote or no references at all. No
\* pathname holds a backslash: the URL parser reads one written in a path
\* as a slash, so that a request for the text the expression matches
\* arrives with GT- as its path parameter.
LookupPaths ==
    D1References(d1Quotes)
      \cup { FormatReference(FirstYear, 1), FormatReference(FirstYear, 10000),
             "GT-" \o ToString(FirstYear) \o "-1", "GT-", "quotes" }

\* The object spread of the row with the five added fields, less the four
\* deleted ones.
LookedUpQuote(row) ==
    LET spread == ListedQuote(row)
        kept == DOMAIN spread \ {"customer_data", "reference_number", "total_amount", "created_at"}
    IN  [f \in kept |-> spread[f]]

\* GET /api/quotes/:reference is received: the path parameter is tested,
\* and either the 400 is returned or the SELECT is sent and the handler
\* waits.
GetQuote ==
    /\ getSeq < MaxGets
    /\ getSeq' = getSeq + 1
    /\ \E reference \in LookupPaths :
         IF ~RegexTest(reference)
         THEN /\ lookupPath' = reference
              /\ lookupResponse' =
                   jsonResponse([success |-> FALSE,
                                 message |-> "Invalid reference number format. Expected: GT-YYYY-NNNN"],
                                400)
              /\ UNCHANGED gets
         ELSE /\ gets' = gets \cup
                          {Get(getSeq', "lookup", [limit |-> NoParam, offset |-> NoParam],
                               0, 0, reference)}
              /\ UNCHANGED <<lookupPath, lookupResponse>>
    /\ UNCHANGED <<listQuery, listResponse>>
    /\ GetFrame

\* No path parameter passes the test, so no lookup ever waits for a SELECT:
\* the two steps below describe the rest of the handler and belong to no
\* behaviour of NextLookup.

\* The SELECT ... WHERE reference_number = ? of a lookup runs; first() is
\* the row with that reference number the table holds at this moment, or
\* null.
GetSelect ==
    /\ \E g \in gets :
         /\ g.route = "lookup"
         /\ g.pc = "select"
         /\ LET result == { r \in d1Quotes : r.reference_number = g.reference }
            IN  \E rows \in IF result = {} THEN {<<>>} ELSE { <<r>> : r \in result } :
                  gets' = (gets \ {g}) \cup {[g EXCEPT !.pc = "resume", !.rows = rows]}
    /\ UNCHANGED <<getSeq, listQuery, listResponse, lookupPath, lookupResponse>>
    /\ GetFrame

\* The handler of a lookup resumes after its await: 404 when first() gave
\* null, else 200 with the row rebuilt.
GetAnswer ==
    /\ \E g \in gets :
         /\ g.route = "lookup"
         /\ g.pc = "resume"
         /\ gets' = gets \ {g}
         /\ lookupPath' = g.reference
         /\ lookupResponse' =
              IF g.rows = <<>>
              THEN jsonResponse([success |-> FALSE, message |-> "Quote not found"], 404)
              ELSE jsonResponse([success |-> TRUE, quote |-> LookedUpQuote(g.rows[1])], 200)
    /\ UNCHANGED <<getSeq, listQuery, listResponse>>
    /\ GetFrame

Next ==
    \/ NewYear
    \/ \E p \in Procs :
         \/ Receive(p)
         \/ ListReferences(p)
         \/ Allocate(p)
         \/ Insert(p)
         \/ ImportEmail(p)
         \/ NotifyAdmin(p)
         \/ NotifyCustomer(p)

Spec == Init /\ [][Next]_vars

\* The same handler serving its requests one after another.
NextSubmit ==
    \/ NewYear
    \/ \E p \in Procs :
         \/ ReceiveNext(p)
         \/ ListReferences(p)
         \/ Allocate(p)
         \/ Insert(p)
         \/ ImportEmail(p)
         \/ NotifyAdmin(p)
         \/ NotifyCustomer(p)

SpecSubmit == Init /\ [][NextSubmit]_vars

\* GET /api/quotes requests among POST requests that are served one after
\* another and carry one of two bodies.
ReceivePlain(p) ==
    /\ \A q \in Procs : q < p => pc[q] = "done"
    /\ ReceiveFrom(p, {ValidBody, EmptyItemsBody})

NextList ==
    \/ NewYear
    \/ ListQuotes
    \/ ListSelect
    \/ ListAnswer
    \/ \E p \in Procs :
         \/ ReceivePlain(p)
         \/ ListReferences(p)
         \/ Allocate(p)
         \/ Insert(p)
         \/ ImportEmail(p)
         \/ NotifyAdmin(p)
         \/ NotifyCustomer(p)

SpecList == Init /\ [][NextList]_vars

\* GET /api/quotes/:reference requests among such POST requests.
NextLookup ==
    \/ NewYear
    \/ GetQuote
    \/ \E p \in Procs :
         \/ ReceivePlain(p)
         \/ ListReferences(p)
         \/ Allocate(p)
         \/ Insert(p)
         \/ ImportEmail(p)
         \/ NotifyAdmin(p)
         \/ NotifyCustomer(p)

SpecLookup == Init /\ [][NextLookup]_vars

(* ------------- the backend's database service: values ----------------- *)

\* Field values carry their JavaScript type: the PostgreSQL driver hands
\* NUMERIC back as a string and TIMESTAMP WITH TIME ZONE as a Date.
JsUndefinedValue == <<"undefined">>
JsNull == <<"null">>
JsString(s) == <<"string", s>>
JsNumber(n) == <<"number", ToString(n)>>
JsDate(iso) == <<"Date", iso>>

\* v || null
OrNull(v) == IF v = JsUndefinedValue \/ v = JsString("") THEN JsNull ELSE v

\* A whole number written to a DECIMAL(10,2) column and read back.
PgNumeric(v) == IF v[1] = "number" THEN JsString(v[2] \o ".00") ELSE v

\* An ISO string written to a TIMESTAMP WITH TIME ZONE column and read back.
PgTimestamp(v) == IF v[1] = "string" THEN JsDate(v[2]) ELSE v

\* Date.prototype.toISOString for second t past 12:00 of 15 June of year yr.
ToISOString(yr, t) ==
    ToString(yr) \o "-06-15T12:00:" \o PadStart(ToString(t), 2, "0") \o ".000Z"

\* new Date().toISOString()
NowISOString == ToISOString(year, now)

\* The instant an ISO string of the clock names, in seconds, a year counted
\* as a minute: the clock never leaves 12:00 of 15 June.
InstantOf(iso) ==
    DecimalValue(SubSeq(iso, 1, 4)) * 60 + DecimalValue(SubSeq(iso, 18, 19))

Statuses == {"pending", "approved", "rejected", "expired"}
QuoteIds == {"q1", "q2"}
RepoRefs == { FormatReference(FirstYear, 1), FormatReference(FirstYear, 2) }

\* The QuoteStorage objects createQuote is called with.
QuoteInput(id, ref) ==
    [id |-> id,
     referenceNumber |-> ref,
     customerData |-> "{\"firstName\":\"Jo\",\"lastName\":\"Doe\",\"email\":\"jo@example.com\"}",
     items |-> "[{\"name\":\"Course\",\"price\":350,\"quantity\":2}]",
     subtotal |-> JsNumber(700),
     total |-> JsNumber(700),
     currency |-> "USD",
     status |-> "pending",
     comments |-> JsUndefinedValue,
     createdAt |-> JsString(NowISOString),
     expiresAt |-> JsString(ToString(year + 1) \o "-06-15T12:00:00.000Z"),
     lastModifiedAt |-> JsUndefinedValue]

\* A quote, a second with another id and the same reference number, and a
\* third with the id of the second and another reference number.
QuoteInputs ==
    { QuoteInput("q1", FormatReference(FirstYear, 1)),
      QuoteInput("q2", FormatReference(FirstYear, 1)),
      QuoteInput("q2", FormatReference(FirstYear, 2)) }

\* The row the INSERT of createQuote writes, as a later SELECT returns it.
RowOfQuote(q) ==
    [id |-> q.id,
     reference_number |-> q.referenceNumber,
     customer_data |-> q.customerData,
     items |-> q.items,
     subtotal |-> PgNumeric(q.subtotal),
     total |-> PgNumeric(q.total),
     currency |-> q.currency,
     status |-> q.status,
     comments |-> OrNull(q.comments),
     created_at |-> PgTimestamp(q.createdAt),
     expires_at |-> PgTimestamp(q.expiresAt),
     last_modified_at |-> PgTimestamp(OrNull(q.lastModifiedAt))]

convertRowToQuote(row) ==
    [id |-> row.id,
     referenceNumber |-> row.reference_number,
     customerData |-> row.customer_data,
     items |-> row.items,
     subtotal |-> row.subtotal,
     total |-> row.total,
     currency |-> row.currency,
     status |-> row.status,
     comments |-> row.comments,
     createdAt |-> row.created_at,
     expiresAt |-> row.expires_at,
     lastModifiedAt |-> row.last_modified_at]

\* createTables: id VARCHAR(255) PRIMARY KEY, reference_number VARCHAR(255)
\* UNIQUE NOT NULL, CHECK (status IN (...)): whether the INSERT of row passes.
PgAccepts(rows, row) ==
    /\ \A i \in 1 .. Len(rows) :
         rows[i].id # row.id /\ rows[i].reference_number # row.reference_number
    /\ row.status \in Statuses

\* Array.prototype.findIndex, counted from 1; 0 for JavaScript's -1.
FindIndexById(arr, id) ==
    IF \E i \in 1 .. Len(arr) : arr[i].id = id
    THEN CHOOSE i \in 1 .. Len(arr) :
           arr[i].id = id /\ \A j \in 1 .. (i - 1) : arr[j].id # id
    ELSE 0

FindIndexByReference(arr, ref) ==
    IF \E i \in 1 .. Len(arr) : arr[i].referenceNumber = ref
    THEN CHOOSE i \in 1 .. Len(arr) :
           arr[i].referenceNumber = ref
             /\ \A j \in 1 .. (i - 1) : arr[j].referenceNumber # ref
    ELSE 0

\* arr.splice(i, 1)
Splice(arr, i) == SubSeq(arr, 1, i - 1) \o SubSeq(arr, i + 1, Len(arr))

\* A SELECT without its WHERE clause: every row of the table.
SelectAll(rows, column, value) == rows

\* SELECT ... WHERE <column> = $1
RECURSIVE SelectWhere(_, _, _)
SelectWhere(rows, column, value) ==
    IF rows = <<>> THEN <<>>
    ELSE (IF Head(rows)[column] = value THEN <<Head(rows)>> ELSE <<>>)
           \o SelectWhere(Tail(rows), column, value)

\* rows.map(row => row.reference_number), devQuoteStorage.map(q => q.referenceNumber)
MapField(arr, fld) == [i \in 1 .. Len(arr) |-> arr[i][fld]]

\* The elements of an array, for Array.prototype.includes.
Elements(arr) == { arr[i] : i \in 1 .. Len(arr) }

Resolved(op, kind, val) == [op |-> op, kind |-> kind, val |-> val]
Rejected(op, error) == [op |-> op, kind |-> "throw", val |-> error]

\* quote | null
QuoteOrNull(op, rows) ==
    IF Len(rows) > 0 THEN Resolved(op, "quote", convertRowToQuote(rows[1]))
    ELSE Resolved(op, "null", JsNull)

(* ------------- the backend's database service: operations ------------- *)

\* Each exported function is an async function. Called while pgPool is null
\* it runs to its return without an await: one step. Called while pgPool is
\* set it stops at 'await getClient()' and again at 'await client.query()':
\* the call is a step, the answer of connect() is a step, the database
\* running the statement is a step, and the call resuming with what the
\* statement gave (the finally block and the return) is a step. Calls in
\* flight are told apart by the number of the call.

RepoFrame == UNCHANGED <<year, allocVars, workerVars>>

\* What connect(), query() and end() reject with when the database or the
\* pool does not do as asked.
ConnectFailed == "connect failed"
QueryFailed == "query failed"
EndFailed == "end failed"

\* The call rejected because the database did not answer.
Lost(r) == r.kind = "throw" /\ r.val \in {ConnectFailed, QueryFailed}

\* await pgPool.connect() in getClient, and client.release()
Acquire(n) == n + 1
Release(n) == n - 1

\* client.release() as the last statement of the try block: skipped by a throw.
ReleaseInTry(n, threw) == IF threw THEN n ELSE Release(n)

\* finally { client.release(); }: run whether the try block returned or threw.
Finally(n, threw) == Release(n)

\* The system clock moves on by a second, at any moment; between two
\* readings it need not have moved.
ClockAdvances ==
    /\ now < MaxNow
    /\ now' = now + 1
    /\ UNCHANGED <<pgPool, ending, pgQuotes, devQuoteStorage, devObjects, flight, ret, args,
                   creates, calls, everCreated, checkedOut>>
    /\ RepoFrame

\* The arguments of a call that is over, with its number and the branch of
\* 'if (pgPool)' that served it.
Over(n, store, a) == a @@ [n |-> n, store |-> store]

\* initializePostgreSQL(connectionString) with a connection string present:
\* pgPool = new Pool(...), whatever pgPool was.
InitializePostgreSQL ==
    /\ calls < MaxCalls
    /\ calls' = calls + 1
    /\ pgPool' = TRUE
    /\ ret' = Resolved("initializePostgreSQL", "undefined", JsUndefinedValue)
    /\ args' = Over(calls + 1, "none", [op |-> "initializePostgreSQL"])
    /\ UNCHANGED <<ending, pgQuotes, devQuoteStorage, devObjects, flight, creates, everCreated,
                   now, checkedOut>>
    /\ RepoFrame

\* closeDatabaseConnection(): with a pool it calls pgPool.end() and awaits it,
\* pgPool still set; without one it returns.
CloseDatabaseConnection ==
    /\ calls < MaxCalls
    /\ calls' = calls + 1
    /\ IF pgPool
       THEN /\ Cardinality(flight) + Cardinality(ending) < MaxInFlight
            /\ ending' = ending \cup {calls + 1}
            /\ UNCHANGED <<ret, args>>
       ELSE /\ ret' = Resolved("closeDatabaseConnection", "undefined", JsUndefinedValue)
            /\ args' = Over(calls + 1, "none", [op |-> "closeDatabaseConnection"])
            /\ UNCHANGED ending
    /\ UNCHANGED <<pgPool, pgQuotes, devQuoteStorage, devObjects, flight, creates, everCreated,
                   now, checkedOut>>
    /\ RepoFrame

\* end() has answered a close that waits. Resolved: pgPool = null, whichever
\* pool pgPool names by now; the table stays. Rejected: the close rejects
\* and pgPool is as it was.
CloseResumes ==
    /\ \E n \in ending, ok \in BOOLEAN :
         /\ ending' = ending \ {n}
         /\ args' = Over(n, "none", [op |-> "closeDatabaseConnection"])
         /\ IF ok
            THEN /\ pgPool' = FALSE
                 /\ ret' = Resolved("closeDatabaseConnection", "undefined", JsUndefinedValue)
            ELSE /\ ret' = Rejected("closeDatabaseConnection", EndFailed)
                 /\ UNCHANGED pgPool
    /\ UNCHANGED <<pgQuotes, devQuoteStorage, devObjects, flight, creates, calls, everCreated,
                   now, checkedOut>>
    /\ RepoFrame

(* ---- the two branches of each operation ---- *)

\* What a call that waits for the pool has got from its last query: nothing
\* yet.
Pending == [kind |-> "none"]

\* The database has run the statement of call f with outcome r: the call
\* has it when it resumes after 'await client.query()'.
Gets(f, r) == flight' = (flight \ {f}) \cup {[f EXCEPT !.pc = "resume", !.result = r]}

\* createQuote(quote), pool branch: INSERT ... RETURNING *.
CreateQuotePg(f, q) ==
    IF PgAccepts(pgQuotes, RowOfQuote(q))
    THEN /\ pgQuotes' = Append(pgQuotes, RowOfQuote(q))
         /\ Gets(f, Resolved("createQuote", "quote", convertRowToQuote(RowOfQuote(q))))
         /\ everCreated' = [everCreated EXCEPT !.pg = @ \cup {q.referenceNumber}]
    ELSE /\ Gets(f, Rejected("createQuote", "constraint violation"))
         /\ UNCHANGED <<pgQuotes, everCreated>>

\* createQuote(quote), fallback branch: devQuoteStorage.push(quote); return quote.
\* The array takes the caller's object itself, not a copy of it.
CreateQuoteDev(q, object) ==
    /\ devQuoteStorage' = Append(devQuoteStorage, q)
    /\ devObjects' = Append(devObjects, object)
    /\ ret' = Resolved("createQuote", "quote", q)
    /\ everCreated' = [everCreated EXCEPT !.dev = @ \cup {q.referenceNumber}]

\* SELECT * FROM quotes WHERE reference_number = $1
FindQuoteByReferencePg(f, reference) ==
    /\ Gets(f, QuoteOrNull("findQuoteByReference",
                           SelectWhere(pgQuotes, "reference_number", reference)))
    /\ UNCHANGED <<pgQuotes, everCreated>>

\* devQuoteStorage.find(q => q.referenceNumber === reference) || null
FindQuoteByReferenceDev(reference) ==
    /\ LET i == FindIndexByReference(devQuoteStorage, reference)
       IN  ret' = IF i > 0
                  THEN Resolved("findQuoteByReference", "quote", devQuoteStorage[i])
                  ELSE Resolved("findQuoteByReference", "null", JsNull)
    /\ UNCHANGED <<devQuoteStorage, devObjects, everCreated>>

\* SELECT * FROM quotes WHERE id = $1
FindQuoteByIdPg(f, id) ==
    /\ Gets(f, QuoteOrNull("findQuoteById", SelectWhere(pgQuotes, "id", id)))
    /\ UNCHANGED <<pgQuotes, everCreated>>

\* devQuoteStorage.find(q => q.id === id) || null
FindQuoteByIdDev(id) ==
    /\ LET i == FindIndexById(devQuoteStorage, id)
       IN  ret' = IF i > 0
                  THEN Resolved("findQuoteById", "quote", devQuoteStorage[i])
                  ELSE Resolved("findQuoteById", "null", JsNull)
    /\ UNCHANGED <<devQuoteStorage, devObjects, everCreated>>

\* An UPDATE that refuses to take a quote back to pending: the row is left
\* as it was.
PgUpdateStatusNoReopen(rows, id, status, at) ==
    [i \in 1 .. Len(rows) |->
       IF rows[i].id = id /\ status # "pending"
       THEN [rows[i] EXCEPT !.status = status, !.last_modified_at = PgTimestamp(at)]
       ELSE rows[i]]

\* An UPDATE that sets the status and forgets the stamp.
PgUpdateStatusNoStamp(rows, id, status, at) ==
    [i \in 1 .. Len(rows) |->
       IF rows[i].id = id THEN [rows[i] EXCEPT !.status = status] ELSE rows[i]]

\* An UPDATE without its WHERE: every row takes the status.
PgUpdateStatusEveryRow(rows, id, status, at) ==
    [i \in 1 .. Len(rows) |->
       [rows[i] EXCEPT !.status = status, !.last_modified_at = PgTimestamp(at)]]

\* UPDATE quotes SET status = $1, last_modified_at = $2 WHERE id = $3
PgUpdateStatus(rows, id, status, at) ==
    [i \in 1 .. Len(rows) |->
       IF rows[i].id = id
       THEN [rows[i] EXCEPT !.status = status, !.last_modified_at = PgTimestamp(at)]
       ELSE rows[i]]

\* UPDATE ... RETURNING *, with the lastModifiedAt the call read on entry.
UpdateQuoteStatusPg(f, id, status, lastModifiedAt) ==
    /\ pgQuotes' = PgUpdateStatus(pgQuotes, id, status, lastModifiedAt)
    /\ Gets(f, QuoteOrNull("updateQuoteStatus", SelectWhere(pgQuotes', "id", id)))
    /\ UNCHANGED everCreated

\* quote.status = status; quote.lastModifiedAt = lastModifiedAt: what an
\* object reads after the two assignments.
Assigned(q, status, lastModifiedAt) ==
    [q EXCEPT !.status = status, !.lastModifiedAt = lastModifiedAt]

\* const quote = devQuoteStorage.find(...); if (quote) { two assignments }:
\* the object found is assigned to, and every element of the array that is
\* this object reads the new values.
UpdateQuoteStatusDev(id, status, lastModifiedAt) ==
    /\ LET i == FindIndexById(devQuoteStorage, id)
       IN  IF i > 0
           THEN /\ devQuoteStorage' =
                     [j \in 1 .. Len(devQuoteStorage) |->
                        IF devObjects[j] = devObjects[i]
                        THEN Assigned(devQuoteStorage[j], status, lastModifiedAt)
                        ELSE devQuoteStorage[j]]
                /\ ret' = Resolved("updateQuoteStatus", "quote", devQuoteStorage'[i])
                /\ UNCHANGED devObjects
           ELSE /\ ret' = Resolved("updateQuoteStatus", "null", JsNull)
                /\ UNCHANGED <<devQuoteStorage, devObjects>>
    /\ UNCHANGED everCreated

\* The orders a SELECT without ORDER BY may return the rows in: any.
AnyOrder(rows) ==
    LET n == Len(rows)
        perms == { f \in [1 .. n -> 1 .. n] : \A i, j \in 1 .. n : i # j => f[i] # f[j] }
    IN  { [i \in 1 .. n |-> rows[f[i]]] : f \in perms }

\* SELECT reference_number FROM quotes
GetAllReferencesPg(f) ==
    /\ \E rows \in AnyOrder(pgQuotes) :
         Gets(f, Resolved("getAllReferences", "array", MapField(rows, "reference_number")))
    /\ UNCHANGED <<pgQuotes, everCreated>>

\* devQuoteStorage.map(q => q.referenceNumber)
GetAllReferencesDev ==
    /\ ret' = Resolved("getAllReferences", "array",
                       MapField(devQuoteStorage, "referenceNumber"))
    /\ UNCHANGED <<devQuoteStorage, devObjects, everCreated>>

\* getAllQuotes(limit = 50, offset = 0): the default of limit.
DefaultLimit == 50

\* An argument the caller passed (given) or left out.
Given(n) == [given |-> TRUE, value |-> n]
NotGiven == [given |-> FALSE, value |-> 0]

\* A parameter with a default value: the default stands in for undefined.
DefaultParam(arg, default) == IF arg.given THEN arg.value ELSE default

\* The (limit, offset) pairs getAllQuotes is called with.
ListCalls ==
    { <<NotGiven, NotGiven>>, <<Given(1), Given(0)>>,
      <<Given(2), Given(-1)>>, <<Given(-1), NotGiven>> }

Min(a, b) == IF a < b THEN a ELSE b
Max(a, b) == IF a > b THEN a ELSE b

\* Array.prototype.slice(start, end): a negative index counts from the end,
\* and both are clamped to the array.
Slice(arr, start, end) ==
    LET len == Len(arr)
        from == IF start < 0 THEN Max(len + start, 0) ELSE Min(start, len)
        to == IF end < 0 THEN Max(len + end, 0) ELSE Min(end, len)
    IN  SubSeq(arr, from + 1, to)

\* ORDER BY created_at DESC: the orders of the rows in which no row comes
\* before a row with a later created_at; rows of equal created_at may come
\* in either order.
OrderByCreatedAtDesc(rows) ==
    { sorted \in AnyOrder(rows) :
        \A i, j \in 1 .. Len(rows) :
          i < j => InstantOf(sorted[i].created_at[2]) >= InstantOf(sorted[j].created_at[2]) }

\* LIMIT $1 OFFSET $2 with neither negative
LimitOffset(rows, limit, offset) ==
    SubSeq(rows, offset + 1, Min(Len(rows), offset + limit))

\* SELECT * FROM quotes ORDER BY created_at DESC LIMIT $1 OFFSET $2:
\* PostgreSQL refuses a negative LIMIT or OFFSET and the query rejects.
GetAllQuotesPg(f, limit, offset) ==
    /\ IF limit < 0
       THEN Gets(f, Rejected("getAllQuotes", "LIMIT must not be negative"))
       ELSE IF offset < 0
       THEN Gets(f, Rejected("getAllQuotes", "OFFSET must not be negative"))
       ELSE \E sorted \in OrderByCreatedAtDesc(pgQuotes) :
              LET result == LimitOffset(sorted, limit, offset)
              IN  Gets(f, Resolved("getAllQuotes", "array",
                            [i \in 1 .. Len(result) |-> convertRowToQuote(result[i])]))
    /\ UNCHANGED <<pgQuotes, everCreated>>

\* devQuoteStorage.slice(offset, offset + limit): slice takes any two numbers.
GetAllQuotesDev(limit, offset) ==
    /\ ret' = Resolved("getAllQuotes", "array",
                       Slice(devQuoteStorage, offset, offset + limit))
    /\ UNCHANGED <<devQuoteStorage, devObjects, everCreated>>

\* DELETE FROM quotes WHERE id = $1
RECURSIVE PgDelete(_, _)
PgDelete(rows, id) ==
    IF rows = <<>> THEN <<>>
    ELSE (IF Head(rows).id = id THEN <<>> ELSE <<Head(rows)>>) \o PgDelete(Tail(rows), id)

\* return (result.rowCount || 0) > 0
DeleteQuotePg(f, id) ==
    /\ pgQuotes' = PgDelete(pgQuotes, id)
    /\ Gets(f, Resolved("deleteQuote", "boolean", Len(pgQuotes) - Len(pgQuotes') > 0))
    /\ UNCHANGED everCreated

\* findIndex, and splice(index, 1) when index >= 0
DeleteQuoteDev(id) ==
    /\ LET index == FindIndexById(devQuoteStorage, id)
       IN  IF index > 0
           THEN /\ devQuoteStorage' = Splice(devQuoteStorage, index)
                /\ devObjects' = Splice(devObjects, index)
                /\ ret' = Resolved("deleteQuote", "boolean", TRUE)
           ELSE /\ ret' = Resolved("deleteQuote", "boolean", FALSE)
                /\ UNCHANGED <<devQuoteStorage, devObjects>>
    /\ UNCHANGED everCreated

\* checkDatabaseHealth, pool branch: SELECT 1 as test, answered with the row.
CheckDatabaseHealthPg(f) ==
    /\ Gets(f, Resolved("checkDatabaseHealth", "boolean", TRUE))
    /\ UNCHANGED <<pgQuotes, everCreated>>

\* return Array.isArray(devQuoteStorage)
CheckDatabaseHealthDev ==
    /\ ret' = Resolved("checkDatabaseHealth", "boolean", TRUE)
    /\ UNCHANGED <<devQuoteStorage, devObjects, everCreated>>

\* createTables, pool branch: the last of its CREATE ... IF NOT EXISTS
\* statements has answered; the rows of the table are as they were.
CreateTablesPg(f) ==
    /\ Gets(f, Resolved("createTables", "boolean", TRUE))
    /\ UNCHANGED <<pgQuotes, everCreated>>

\* if (!pgPool) { ...; return true; }
CreateTablesDev ==
    /\ ret' = Resolved("createTables", "boolean", TRUE)
    /\ UNCHANGED <<devQuoteStorage, devObjects, everCreated>>

\* The branch taken when pgPool is null, by operation.
Fallback(a) ==
    CASE a.op = "createQuote" -> CreateQuoteDev(a.quote, a.object)
      [] a.op = "findQuoteByReference" -> FindQuoteByReferenceDev(a.reference)
      [] a.op = "findQuoteById" -> FindQuoteByIdDev(a.id)
      [] a.op = "updateQuoteStatus" -> UpdateQuoteStatusDev(a.id, a.status, a.lastModifiedAt)
      [] a.op = "getAllReferences" -> GetAllReferencesDev
      [] a.op = "getAllQuotes" -> GetAllQuotesDev(a.limit, a.offset)
      [] a.op = "deleteQuote" -> DeleteQuoteDev(a.id)
      [] a.op = "checkDatabaseHealth" -> CheckDatabaseHealthDev
      [] a.op = "createTables" -> CreateTablesDev

\* The database runs the last statement of the pool branch of call f, and
\* what the operation will return from its rows once it resumes.
Query(f) ==
    LET a == f.call
    IN  CASE a.op = "createQuote" -> CreateQuotePg(f, a.quote)
          [] a.op = "findQuoteByReference" -> FindQuoteByReferencePg(f, a.reference)
          [] a.op = "findQuoteById" -> FindQuoteByIdPg(f, a.id)
          [] a.op = "updateQuoteStatus" ->
               UpdateQuoteStatusPg(f, a.id, a.status, a.lastModifiedAt)
          [] a.op = "getAllReferences" -> GetAllReferencesPg(f)
          [] a.op = "getAllQuotes" -> GetAllQuotesPg(f, a.limit, a.offset)
          [] a.op = "deleteQuote" -> DeleteQuotePg(f, a.id)
          [] a.op = "checkDatabaseHealth" -> CheckDatabaseHealthPg(f)
          [] a.op = "createTables" -> CreateTablesPg(f)

\* The statements the pool branch awaits one after another.
Queries(op) == IF op = "createTables" THEN 4 ELSE 1

\* checkDatabaseHealth and createTables catch what their try block throws
\* and return false; the operations of the service let it pass.
Thrown(op, error) ==
    IF op \in {"checkDatabaseHealth", "createTables"}
    THEN Resolved(op, "boolean", FALSE)
    ELSE Rejected(op, error)

(* ---- calls and answers ---- *)

\* A function is called with arguments a: with pgPool null it runs its
\* fallback branch to the return; with pgPool set it calls pgPool.connect()
\* and waits.
\* The calls of createQuote that wait for connect() read the fields of
\* their quote when they resume; one whose quote is the object the fallback
\* branch of updateQuoteStatus assigns to will read the new values.
Aliased(a) ==
    IF a.op = "updateQuoteStatus" /\ FindIndexById(devQuoteStorage, a.id) > 0
    THEN LET object == devObjects[FindIndexById(devQuoteStorage, a.id)]
         IN  { IF f.call.op = "createQuote" /\ f.pc = "connect" /\ f.call.object = object
               THEN [f EXCEPT !.call.quote = Assigned(@, a.status, a.lastModifiedAt)]
               ELSE f : f \in flight }
    ELSE flight

Called(a) ==
    /\ calls < MaxCalls
    /\ calls' = calls + 1
    /\ IF pgPool
       THEN /\ Cardinality(flight) + Cardinality(ending) < MaxInFlight
            /\ flight' = flight \cup
                           {[n |-> calls + 1, pc |-> "connect", left |-> Queries(a.op), call |-> a,
                             result |-> Pending]}
            /\ UNCHANGED <<devQuoteStorage, devObjects, ret, args, everCreated>>
       ELSE /\ Fallback(a)
            /\ args' = Over(calls + 1, "dev", a)
            /\ flight' = Aliased(a)
    /\ UNCHANGED <<pgPool, ending, pgQuotes, now, checkedOut>>
    /\ RepoFrame

\* The objects that are held: by the array, or by a call of createQuote
\* that waits.
HeldObjects ==
    { devObjects[i] : i \in 1 .. Len(devObjects) }
      \cup { f.call.object : f \in { g \in flight : g.call.op = "createQuote" } }

\* An object that is none of those.
NewObject == CHOOSE o \in 1 .. (Cardinality(HeldObjects) + 1) : o \notin HeldObjects

\* What createQuote is called with: an object made for the call, or an
\* object the array already holds, passed again as it reads by now.
CreateCalls ==
    { [op |-> "createQuote", quote |-> q, object |-> NewObject] : q \in QuoteInputs }
      \cup { [op |-> "createQuote", quote |-> devQuoteStorage[i], object |-> devObjects[i]] :
               i \in 1 .. Len(devQuoteStorage) }

CreateQuote ==
    /\ creates < MaxCreates
    /\ creates' = creates + 1
    /\ \E a \in CreateCalls : Called(a)

FindQuoteByReference ==
    /\ \E reference \in RepoRefs :
         Called([op |-> "findQuoteByReference", reference |-> reference])
    /\ UNCHANGED creates

FindQuoteById ==
    /\ \E id \in QuoteIds : Called([op |-> "findQuoteById", id |-> id])
    /\ UNCHANGED creates

\* The (id, status) pairs updateQuoteStatus is called with: each of the four
\* statuses for one id, and approval for the other.
UpdateCalls ==
    { <<"q1", status>> : status \in Statuses } \cup { <<"q2", "approved">> }

\* const lastModifiedAt = new Date().toISOString() is read on entry, before
\* the branch and its awaits.
UpdateQuoteStatus ==
    /\ \E call \in UpdateCalls :
         Called([op |-> "updateQuoteStatus", id |-> call[1], status |-> call[2],
                 lastModifiedAt |-> JsString(NowISOString)])
    /\ UNCHANGED creates

GetAllReferences ==
    /\ Called([op |-> "getAllReferences"])
    /\ UNCHANGED creates

GetAllQuotes ==
    /\ \E call \in ListCalls :
         Called([op |-> "getAllQuotes",
                 limit |-> DefaultParam(call[1], DefaultLimit),
                 offset |-> DefaultParam(call[2], 0)])
    /\ UNCHANGED creates

DeleteQuote ==
    /\ \E id \in QuoteIds : Called([op |-> "deleteQuote", id |-> id])
    /\ UNCHANGED creates

CheckDatabaseHealth ==
    /\ Called([op |-> "checkDatabaseHealth"])
    /\ UNCHANGED creates

CreateTables ==
    /\ Called([op |-> "createTables"])
    /\ UNCHANGED creates

\* pgPool.connect() has answered a call that waits in getClient: with a
\* client, and the call sends its first query, or with an error, which
\* getClient passes on. createTables calls getClient outside its try,
\* checkDatabaseHealth inside.
Connected ==
    /\ \E f \in flight :
         /\ f.pc = "connect"
         /\ \E ok \in BOOLEAN :
              IF ok
              THEN /\ checkedOut' = Acquire(checkedOut)
                   /\ flight' = (flight \ {f}) \cup {[f EXCEPT !.pc = "query"]}
                   /\ UNCHANGED <<ret, args>>
              ELSE /\ flight' = flight \ {f}
                   /\ args' = Over(f.n, "pg", f.call)
                   /\ ret' = IF f.call.op = "checkDatabaseHealth"
                             THEN Resolved(f.call.op, "boolean", FALSE)
                             ELSE Rejected(f.call.op, ConnectFailed)
                   /\ UNCHANGED checkedOut
    /\ UNCHANGED <<pgPool, ending, pgQuotes, devQuoteStorage, devObjects, creates, calls,
                   everCreated, now>>
    /\ RepoFrame

\* The database runs the statement a call of operation op has sent, or
\* fails to. A statement that is not the last of the try block gives
\* nothing the call returns.
Ran(op) ==
    /\ \E f \in flight :
         /\ f.pc = "query"
         /\ f.call.op = op
         /\ \E ok \in BOOLEAN :
              IF ~ok
              THEN /\ Gets(f, Rejected(op, QueryFailed))
                   /\ UNCHANGED <<pgQuotes, everCreated>>
              ELSE IF f.left > 1
              THEN /\ Gets(f, Pending)
                   /\ UNCHANGED <<pgQuotes, everCreated>>
              ELSE Query(f)
    /\ UNCHANGED <<pgPool, ending, devQuoteStorage, devObjects, ret, args, creates,
                   calls, now, checkedOut>>
    /\ RepoFrame

\* What a call returns from what its query gave: the value made of the
\* rows, or what was thrown, passed on or caught.
Returned(f) ==
    IF f.result.kind = "throw" THEN Thrown(f.call.op, f.result.val) ELSE f.result

\* A call resumes after 'await client.query()' with what the database gave
\* it, in a later turn than the one the statement ran in. After a statement
\* that is not the last of the try block it sends the next; otherwise the
\* finally block releases the client and the call is over: it returns what
\* it has from the rows, or passes on or catches what was thrown.
Resumed ==
    /\ \E f \in flight :
         /\ f.pc = "resume"
         /\ IF f.result.kind = "none"
            THEN /\ flight' = (flight \ {f}) \cup {[f EXCEPT !.pc = "query", !.left = @ - 1]}
                 /\ UNCHANGED <<ret, args, checkedOut>>
            ELSE /\ flight' = flight \ {f}
                 /\ ret' = Returned(f)
                 /\ args' = Over(f.n, "pg", f.call)
                 /\ checkedOut' = Finally(checkedOut, f.result.kind = "throw")
    /\ UNCHANGED <<pgPool, ending, pgQuotes, devQuoteStorage, devObjects, creates,
                   calls, everCreated, now>>
    /\ RepoFrame

\* The functions of the module called at any moment, also while earlier
\* calls wait, and the answers of the pool arriving in any order.
NextRepo ==
    \/ ClockAdvances /\ UNCHANGED served
    \/ InitializePostgreSQL /\ UNCHANGED served
    \/ CloseDatabaseConnection /\ UNCHANGED served
    \/ CloseResumes /\ UNCHANGED served
    \/ CreateQuote /\ UNCHANGED served
    \/ FindQuoteByReference /\ UNCHANGED served
    \/ FindQuoteById /\ UNCHANGED served
    \/ UpdateQuoteStatus /\ UNCHANGED served
    \/ GetAllReferences /\ UNCHANGED served
    \/ GetAllQuotes /\ UNCHANGED served
    \/ DeleteQuote /\ UNCHANGED served
    \/ CheckDatabaseHealth /\ UNCHANGED served
    \/ CreateTables /\ UNCHANGED served
    \/ Connected /\ UNCHANGED served
    \/ Ran("createQuote") /\ UNCHANGED served
    \/ Ran("findQuoteByReference") /\ UNCHANGED served
    \/ Ran("findQuoteById") /\ UNCHANGED served
    \/ Ran("updateQuoteStatus") /\ UNCHANGED served
    \/ Ran("getAllReferences") /\ UNCHANGED served
    \/ Ran("getAllQuotes") /\ UNCHANGED served
    \/ Ran("deleteQuote") /\ UNCHANGED served
    \/ Ran("checkDatabaseHealth") /\ UNCHANGED served
    \/ Ran("createTables") /\ UNCHANGED served
    \/ Resumed /\ UNCHANGED served

SpecRepo == Init /\ [][NextRepo]_vars

\* The operations of the service, which both branches implement.
ServiceOps ==
    {"createQuote", "findQuoteByReference", "findQuoteById", "updateQuoteStatus",
     "getAllReferences", "getAllQuotes", "deleteQuote"}

\* What a caller passed to an operation, the readings of the clock left out.
CallOf(a) ==
    IF a.op = "createQuote"
    THEN [op |-> a.op, quote |-> [a.quote EXCEPT !.createdAt = JsNull, !.expiresAt = JsNull]]
    ELSE IF a.op = "updateQuoteStatus"
    THEN [op |-> a.op, id |-> a.id, status |-> a.status]
    ELSE [f \in DOMAIN a \ {"n", "store"} |-> a[f]]

\* What a caller can tell of a quote whichever store it comes from: the
\* fields that are neither amounts nor timestamps nor optional.
SeenQuote(q) ==
    [id |-> q.id, referenceNumber |-> q.referenceNumber, status |-> q.status,
     items |-> q.items, customerData |-> q.customerData, currency |-> q.currency]

\* What a caller can tell of the outcome of an operation: that it threw, or
\* the value it resolved with, quotes read as above.
OutcomeOf(r) ==
    IF r.kind = "throw" THEN [kind |-> "throw", lost |-> Lost(r)]
    ELSE IF r.kind = "quote" THEN [kind |-> "quote", val |-> SeenQuote(r.val)]
    ELSE IF r.kind = "array" /\ r.op = "getAllQuotes"
    THEN [kind |-> "array", val |-> [i \in 1 .. Len(r.val) |-> SeenQuote(r.val[i])]]
    ELSE [kind |-> r.kind, val |-> r.val]

\* An operation of the service that is over in this step is noted under
\* the branch that served it.
Noted ==
    IF args' # args /\ args'.op \in ServiceOps
    THEN served' = [served EXCEPT ![args'.store] =
                      Append(@, [call |-> CallOf(args'), outcome |-> OutcomeOf(ret')])]
    ELSE UNCHANGED served

\* Nothing is in flight: the caller awaits each call before the next.
Awaited == flight = {} /\ ending = {}

\* The functions called one after another, each awaited, with a note of
\* what each store was asked and answered.
NextNoted ==
    \/ ClockAdvances /\ UNCHANGED served
    \/ Awaited /\ InitializePostgreSQL /\ UNCHANGED served
    \/ Awaited /\ CloseDatabaseConnection /\ UNCHANGED served
    \/ CloseResumes /\ UNCHANGED served
    \/ Awaited /\ CreateQuote /\ Noted
    \/ Awaited /\ FindQuoteByReference /\ Noted
    \/ Awaited /\ FindQuoteById /\ Noted
    \/ Awaited /\ UpdateQuoteStatus /\ Noted
    \/ Awaited /\ GetAllReferences /\ Noted
    \/ Awaited /\ GetAllQuotes /\ Noted
    \/ Awaited /\ DeleteQuote /\ Noted
    \/ Awaited /\ CheckDatabaseHealth /\ Noted
    \/ Awaited /\ CreateTables /\ Noted
    \/ Connected /\ Noted
    \/ Ran("createQuote") /\ Noted
    \/ Ran("findQuoteByReference") /\ Noted
    \/ Ran("findQuoteById") /\ Noted
    \/ Ran("updateQuoteStatus") /\ Noted
    \/ Ran("getAllReferences") /\ Noted
    \/ Ran("getAllQuotes") /\ Noted
    \/ Ran("deleteQuote") /\ Noted
    \/ Ran("checkDatabaseHealth") /\ Noted
    \/ Ran("createTables") /\ Noted
    \/ Resumed /\ Noted

SpecNoted == Init /\ [][NextNoted]_vars

SpecAlloc == Init /\ [][NextAlloc]_vars

\* The loop is synchronous code: once entered, its next pass is run.
SpecAllocRuns == SpecAlloc /\ WF_vars(AllocLoop)

(* ============================== claims ================================ *)

(* ---- the worker's POST /api/quotes (Spec) ---- *)

\* The reference number a request was answered with.
AnsweredReference(p) == response[p].data.quote.referenceNumber

Succeeded(p) == pc[p] = "done" /\ response[p].status = 201

\* C1: every submission with a valid payload completes with a reference
\* number, and no two submissions are handed the same one, whatever the
\* interleaving of their list, allocate and insert steps.
C1_ConcurrentSubmitsAllGetDistinctReferences ==
    \A p \in Procs :
      (pc[p] = "done" /\ body[p] = ValidBody) =>
        /\ response[p].status = 201
        /\ \A q \in Procs \ {p} :
             Succeeded(q) => AnsweredReference(q) # AnsweredReference(p)

\* C4: a submission whose INSERT was rejected because its reference number
\* was taken reports a failure to its caller only after more than one INSERT,
\* that is, after it retried.
C4_ConflictIsRetriedBeforeFailure ==
    \A p \in Procs :
      ( /\ pc[p] = "done"
        /\ response[p].status = 500
        /\ inserts[p] > 0
        /\ quote[p].referenceNumber \in D1References(d1Quotes) )
      => inserts[p] > 1

\* C5: two submissions with the same valid payload, the only two requests
\* against the empty table, both succeed once both are over, and their
\* reference numbers are GT-<year>-0001 and GT-<year>-0002.
C5_TwoIdenticalSubmitsGet0001And0002 ==
    \A p, q \in Procs :
      ( /\ p # q
        /\ pc[p] = "done" /\ pc[q] = "done"
        /\ body[p] = ValidBody /\ body[q] = ValidBody
        /\ \A o \in Procs \ {p, q} : pc[o] = "idle"
        /\ year = FirstYear )
      => /\ response[p].status = 201
         /\ response[q].status = 201
         /\ {AnsweredReference(p), AnsweredReference(q)}
              = {FormatReference(FirstYear, 1), FormatReference(FirstYear, 2)}

\* C9: a request one of whose notification sends failed is still answered 201
\* with its quote, and the row of that quote is in the table.
C9_NotificationFailureKeepsSuccess ==
    \A p \in Procs :
      (pc[p] = "done" /\ (mail[p].admin = "failed" \/ mail[p].customer = "failed")) =>
        /\ response[p].status = 201
        /\ response[p].data.success
        /\ \E r \in d1Quotes :
             /\ r.id = response[p].data.quote.id
             /\ r.reference_number = AnsweredReference(p)

\* Two requests are over, one after its admin notification failed and one
\* after its customer confirmation failed.
C9_Witness ==
    \E p, q \in Procs :
      /\ pc[p] = "done" /\ mail[p].admin = "failed"
      /\ pc[q] = "done" /\ mail[q].customer = "failed"

\* C10: once the senders are loaded, a successful submit has attempted both
\* sends, the customer confirmation also when the admin notification failed.
C10_BothSendsAttempted ==
    \A p \in Procs :
      (Succeeded(p) /\ mail[p].import = "loaded") =>
        mail[p].admin # "none" /\ mail[p].customer # "none"

\* The body has no items, items that are no array or an empty array, or no
\* customer.
MissingItemsOrCustomer(b) ==
    \/ b.items.type # "array"
    \/ b.items.elems = <<>>
    \/ b.customer.type = "undefined"

\* C11: the step that receives a body without items (missing, no array or
\* empty) or without customer answers 400 and leaves the table, and so the
\* listing of its reference numbers, as it was; no INSERT is run and no
\* notification is sent for that request, then or later.
C11_FailedValidationChangesNothing ==
    [][ \A p \in Procs :
          /\ (pc[p] = "idle" /\ pc'[p] # "idle" /\ MissingItemsOrCustomer(body'[p])) =>
               /\ pc'[p] = "done"
               /\ response'[p].status = 400
               /\ ~response'[p].data.success
               /\ d1Quotes' = d1Quotes
               /\ D1References(d1Quotes') = D1References(d1Quotes)
          /\ MissingItemsOrCustomer(body'[p]) =>
               /\ inserts'[p] = 0
               /\ mail'[p] = NoMail
               /\ quote'[p] = NoQuote
      ]_vars

\* A request with an empty items array was answered 400 while the table held
\* another request's quote.
C11_Witness ==
    \E p, q \in Procs :
      /\ Succeeded(q)
      /\ D1References(d1Quotes) # {}
      /\ pc[p] = "done" /\ body[p] = EmptyItemsBody
      /\ response[p].status = 400

(* ---- the worker's POST /api/quotes, one request after another (SpecSubmit) ---- *)

\* Some item of the body has a negative price or a quantity below 1.
HasBadItem(b) ==
    /\ b.items.type = "array"
    /\ \E i \in 1 .. Len(b.items.elems) :
         b.items.elems[i].price < 0 \/ b.items.elems[i].quantity < 1

\* C12: a request some item of which has a negative price or a quantity that
\* is no positive integer is answered with a validation error (400), and
\* neither an INSERT is run for it nor a row of it is in the table.
C12_BadItemsRejected ==
    \A p \in Procs :
      (pc[p] = "done" /\ HasBadItem(body[p])) =>
        /\ response[p].status = 400
        /\ inserts[p] = 0
        /\ \A r \in d1Quotes : r.id # quote[p].id

\* The i-th character of a string.
CharAt(s, i) == SubSeq(s, i, i)

\* local@domain.tld: one @ with characters before it, and after it a dot
\* with characters on both sides; no blank.
EmailShape(s) ==
    /\ \A i \in 1 .. Len(s) : CharAt(s, i) # " "
    /\ \E i \in 2 .. Len(s) :
         /\ CharAt(s, i) = "@"
         /\ \A k \in 1 .. Len(s) : CharAt(s, k) = "@" => k = i
         /\ \E j \in (i + 2) .. (Len(s) - 1) : CharAt(s, j) = "."

\* The body has a customer whose email is absent or not of the email shape.
HasBadEmail(b) ==
    /\ b.customer.type = "object"
    /\ \/ "email" \notin DOMAIN b.customer.fields
       \/ ~EmailShape(b.customer.fields.email)

\* C13: a request whose customer has no email, or an email that is not of
\* the shape local@domain.tld, is answered with a validation error (400), and
\* neither an INSERT is run for it nor a row of it is in the table.
C13_BadEmailRejected ==
    \A p \in Procs :
      (pc[p] = "done" /\ HasBadEmail(body[p])) =>
        /\ response[p].status = 400
        /\ inserts[p] = 0
        /\ \A r \in d1Quotes : r.id # quote[p].id

\* The sum of price * quantity over the first n items.
RECURSIVE SumOfItems(_, _)
SumOfItems(elems, n) ==
    IF n = 0 THEN 0
    ELSE SumOfItems(elems, n - 1) + elems[n].price * elems[n].quantity

\* The row of the table a request's answer speaks of.
RowOfAnswer(p) == CHOOSE r \in d1Quotes : r.id = response[p].data.quote.id

\* C14: the quote a request is answered with (201) carries as its total the
\* sum over the items of the body of price * quantity, and so does its row;
\* the body with the one item {price 350, quantity 2}, served when the table
\* was empty, gives total 700, status pending and GT-<year>-0001.
C14_TotalIsSumOfItems ==
    \A p \in Procs :
      Succeeded(p) =>
        LET answer == response[p].data.quote
            elems == body[p].items.elems
        IN  /\ answer.totalAmount = SumOfItems(elems, Len(elems))
            /\ \E r \in d1Quotes : r.id = answer.id
            /\ RowOfAnswer(p).total_amount = SumOfItems(elems, Len(elems))
            /\ (body[p] = ValidBody /\ refNumbers[p] = {}) =>
                 /\ answer.totalAmount = 700
                 /\ answer.status = "pending"
                 /\ RowOfAnswer(p).status = "pending"
                 /\ \E y \in Years :
                      /\ y <= year
                      /\ answer.referenceNumber = "GT-" \o ToString(y) \o "-0001"

\* The one-item body was served on the empty table and answered with total
\* 700 and the year's first reference; the two-item body after it with 1060.
C14_Witness ==
    \E p, q \in Procs :
      /\ Succeeded(p) /\ body[p] = ValidBody /\ refNumbers[p] = {}
      /\ response[p].data.quote.totalAmount = 700
      /\ AnsweredReference(p) = FormatReference(FirstYear, 1)
      /\ Succeeded(q) /\ body[q] = TwoItemsBody
      /\ response[q].data.quote.totalAmount = 1060

\* C15: every row the handler has inserted has status pending, from the
\* step of its INSERT on and whatever its request's body held, and the quote
\* of every 201 answer says pending; the handler has no step that writes
\* another status.
C15_CreatedQuotesArePending ==
    /\ \A r \in d1Quotes : r.status = "pending"
    /\ \A p \in Procs :
         /\ pc[p] \in {"import", "notifyAdmin", "notifyCustomer"} =>
              \E r \in d1Quotes : r.id = quote[p].id /\ r.status = "pending"
         /\ Succeeded(p) =>
              /\ response[p].data.quote.status = "pending"
              /\ RowOfAnswer(p).status = "pending"

\* The body that names status approved was inserted and answered.
C15_Witness ==
    \E p \in Procs :
      /\ Succeeded(p)
      /\ body[p] = StatusBody
      /\ \E r \in d1Quotes : r.id = response[p].data.quote.id

(* ---- the worker's GET /api/quotes (SpecList) ---- *)

\* C19: a list request whose limit is a number outside 1..100 (0 and the
\* negative numbers included), or whose offset is a negative number, is
\* answered with a validation error (400); a request that is answered 200
\* was served with a limit within 1..100 and carries no more quotes than it.
C19_ListRejectsBadPaging ==
    listResponse.status # 0 =>
      LET limit == ParseInt(listQuery.limit)
          offset == ParseInt(listQuery.offset)
      IN  /\ (~limit.nan /\ (limit.value < 1 \/ limit.value > 100)) =>
               listResponse.status = 400
          /\ (~offset.nan /\ offset.value < 0) => listResponse.status = 400
          /\ listResponse.status = 200 =>
               /\ listResponse.data.pagination.limit \in 1 .. 100
               /\ Len(listResponse.data.quotes) <= listResponse.data.pagination.limit

\* The rows of the table that carry the id the request drew.
RowsOf(p) == { r \in d1Quotes : r.id = quote[p].id }

\* The requests whose INSERT was accepted.
Inserted == { p \in Procs : pc[p] \in {"import", "notifyAdmin", "notifyCustomer"} \/ Succeeded(p) }

\* The request is over, answered by the outer catch after its INSERT threw.
InsertFailed(p) == pc[p] = "done" /\ inserts[p] > 0 /\ response[p].status # 201

\* C27: a request answered 201 has added exactly one row, its own, and the
\* table holds one row per accepted INSERT; a request whose INSERT failed has
\* added no row, attempted no notification and is answered 500.
C27_SuccessAddsOneFailureAddsNone ==
    /\ \A p \in Procs :
         /\ Succeeded(p) => Cardinality(RowsOf(p)) = 1 /\ inserts[p] = 1
         /\ InsertFailed(p) =>
              /\ RowsOf(p) = {}
              /\ mail[p] = NoMail
              /\ response[p].status = 500
    /\ Cardinality(d1Quotes) = Cardinality(Inserted)

\* One request was answered 201 and another, which had drawn the same
\* reference number, was answered 500 after its INSERT failed.
C27_Witness ==
    \E p, q \in Procs :
      /\ Succeeded(p)
      /\ InsertFailed(q) /\ quote[q].referenceNumber = quote[p].referenceNumber
      /\ Cardinality(d1Quotes) = 1

\* C28: a request has attempted a notification (loading the senders, the admin
\* notification, the customer confirmation) only once its INSERT has
\* completed: the row of its quote is in the table and it made one INSERT.
C28_NotificationsFollowInsert ==
    \A p \in Procs :
      (mail[p] # NoMail \/ pc[p] \in {"import", "notifyAdmin", "notifyCustomer"}) =>
        /\ inserts[p] = 1
        /\ \E r \in d1Quotes :
             r.id = quote[p].id /\ r.reference_number = quote[p].referenceNumber

\* A request has sent its admin notification and is about to send the
\* customer confirmation; its row is in the table.
C28_Witness ==
    \E p \in Procs :
      /\ pc[p] = "notifyCustomer"
      /\ mail[p].admin = "sent"
      /\ RowsOf(p) # {}

(* ---- the worker's GET /api/quotes/:reference (SpecLookup) ---- *)

\* GT-, four digits, a dash, four or more digits.
WellFormedReference(reference) ==
    /\ Len(reference) >= 12
    /\ SubSeq(reference, 1, 3) = "GT-"
    /\ \A i \in 4 .. 7 : SubSeq(reference, i, i) \in Digits
    /\ SubSeq(reference, 8, 8) = "-"
    /\ \A i \in 9 .. Len(reference) : SubSeq(reference, i, i) \in Digits

\* The reference numbers the SELECT of the lookup answered in this step saw
\* stored; a lookup answered as it is received sends none, and the table
\* as it is stands in.
LookupSaw ==
    IF gets' # gets
    THEN { g.rows[1].reference_number : g \in { h \in gets \ gets' : h.rows # <<>> } }
    ELSE D1References(d1Quotes)

\* C23: a lookup is answered 400 when its path parameter is not GT-, four
\* digits, a dash and four or more digits, 404 when it is and no row has that
\* reference number, and 200 with the quote of that reference number when a
\* row has it; so the reference number of every 201 answer is looked up
\* with a 200.
C23_LookupAnswers ==
    [][ <<lookupPath, lookupResponse>>' # <<lookupPath, lookupResponse>> =>
          IF ~WellFormedReference(lookupPath')
          THEN lookupResponse'.status = 400
          ELSE IF lookupPath' \notin LookupSaw
          THEN lookupResponse'.status = 404
          ELSE /\ lookupResponse'.status = 200
               /\ lookupResponse'.data.quote.referenceNumber = lookupPath'
      ]_vars

(* ---- generateReferenceNumber (SpecAlloc) ---- *)

\* Inputs small enough for the loop to be run in one evaluation.
SmallInput(refs) == Cardinality(refs) <= 2 * (MaxSeq + 1) * (MaxYearTicks + 1)

\* C6: the call returns GT-<year>-<k> for the smallest k >= 1 whose candidate
\* is not in existingRefs; the returned value is never in existingRefs.
C6_AllocateReturnsSmallestFree ==
    allocPc = "done" =>
      /\ allocReference \notin allocRefs
      /\ \E k \in 1 .. (Cardinality(allocRefs) + 1) :
           /\ allocReference = FormatReference(allocYear, k)
           /\ \A j \in 1 .. (k - 1) : FormatReference(allocYear, j) \in allocRefs
      /\ SmallInput(allocRefs) =>
           generateReferenceNumber(allocYear, allocRefs) = allocReference

\* A call returned the second sequence number of its year although the array
\* also held a reference of another year and strings that are no candidates.
C6_Witness ==
    /\ allocPc = "done"
    /\ allocYear = FirstYear + 1
    /\ allocReference = FormatReference(allocYear, 2)
    /\ FormatReference(FirstYear, 1) \in allocRefs
    /\ OddRefs \subseteq allocRefs

\* C7: a returned reference reads GT-<year of the call>-<digits>, the digits
\* being the sequence number written with at least 4 digits and no digit
\* dropped; with 1..9999 of the year used and 10000 free it ends in 10000.
C7_ReferenceFormat ==
    allocPc = "done" =>
      LET ref == allocReference
          digits == SubSeq(ref, 9, Len(ref))
      IN  /\ Len(ref) >= 12
          /\ SubSeq(ref, 1, 3) = "GT-"
          /\ SubSeq(ref, 4, 7) = ToString(allocYear)
          /\ SubSeq(ref, 8, 8) = "-"
          /\ \A i \in 1 .. Len(digits) : SubSeq(digits, i, i) \in Digits
          /\ DecimalValue(digits) = allocCounter - 1
          /\ DecimalValue(digits) >= 1
          /\ Len(digits) = IF DecimalValue(digits) < 10000 THEN 4
                           ELSE Len(ToString(DecimalValue(digits)))
          /\ ( /\ FullYear(allocYear) \subseteq allocRefs
               /\ ("GT-" \o ToString(allocYear) \o "-10000") \notin allocRefs )
             => ref = "GT-" \o ToString(allocYear) \o "-10000"

\* The call that found 1..9999 of its year used returned sequence 10000.
C7_Witness ==
    /\ allocPc = "done"
    /\ FullYear(allocYear) \subseteq allocRefs
    /\ allocReference = "GT-" \o ToString(allocYear) \o "-10000"

\* The candidates the call has examined so far.
Examined == allocCounter - 1

\* C30: the loop of the allocator comes to an end for every array it is given,
\* and with n references in the array it has examined at most n candidates
\* while it runs and at most n + 1 when it returns.
C30_AllocatorTerminates ==
    /\ [](allocPc = "loop" => Examined <= Cardinality(allocRefs))
    /\ [](allocPc = "done" => Examined <= Cardinality(allocRefs) + 1)
    /\ (allocPc = "loop" ~> allocPc = "done")

\* A call has returned after examining one candidate more than the array has
\* references, the array holding two or more.
C30_Witness ==
    /\ allocPc = "done"
    /\ Cardinality(allocRefs) >= 2
    /\ Examined = Cardinality(allocRefs) + 1

(* ---- the backend's database service (SpecRepo, SpecNoted) ---- *)

\* The quotes of a store as QuoteStorage objects: the rows of the table for
\* the pool branch, the array for the fallback.
StoredQuotes(store, rows, quotes) ==
    IF store = "pg" THEN [i \in 1 .. Len(rows) |-> convertRowToQuote(rows[i])]
    ELSE quotes

\* The call whose last statement the database runs in this step, or whose
\* query it fails: at most one.
Run ==
    { g \in flight' : /\ g.pc = "resume"
                      /\ g.result.kind # "none"
                      /\ \E f \in flight : f.n = g.n /\ f.pc = "query" }

\* A store serves a call of operation op in this step: the array as the
\* call is made, the database as it runs the statement the call has sent or
\* fails to, the pool as it fails to connect. A call that resumes with what
\* the database gave it earlier is not served again.
Serves(op) ==
    IF Run # {}
    THEN \E g \in Run : g.call.op = op
    ELSE /\ args' # args
         /\ args'.op = op
         /\ \A f \in flight : f.pc = "resume" => f.n # args'.n

\* The arguments of the call served in this step, with its number and the
\* branch that serves it, and what the call returns or will return.
ServedCall ==
    IF Run # {} THEN LET g == CHOOSE g \in Run : TRUE IN Over(g.n, "pg", g.call)
    ELSE args'
ServedResult ==
    IF Run # {} THEN Returned(CHOOSE g \in Run : TRUE) ELSE ret'

\* A call of operation op that resumes after its last query returns what
\* the database gave it when it ran the statement, whatever the table holds
\* by now, and changes neither store.
ReturnsAsServed(op) ==
    \A f \in flight :
      (f.pc = "resume" /\ f.call.op = op /\ f.result.kind # "none" /\ f \notin flight') =>
        /\ ret' = Returned(f)
        /\ args' = Over(f.n, "pg", f.call)
        /\ pgQuotes' = pgQuotes
        /\ devQuoteStorage' = devQuoteStorage

NoDuplicateReference(quotes) ==
    \A i, j \in 1 .. Len(quotes) :
      i # j => quotes[i].referenceNumber # quotes[j].referenceNumber

\* C2: in neither store do two stored quotes have the same referenceNumber.
C2_StoredReferencesUnique ==
    /\ NoDuplicateReference(StoredQuotes("pg", pgQuotes, devQuoteStorage))
    /\ NoDuplicateReference(devQuoteStorage)

\* C3: the reference number allocated from the listing getAllReferences just
\* returned differs from the reference number of every quote ever created in
\* that store, deleted ones included.
C3_AllocatedReferenceNeverUsedBefore ==
    (args.op = "getAllReferences" /\ ret.kind = "array") =>
      generateReferenceNumber(year, Elements(ret.val)) \notin everCreated[args.store]

\* C8: a createQuote that finds its id or its referenceNumber already stored
\* rejects and leaves both stores as they were; so one that resolves found
\* neither stored, and one that rejects changed nothing.
C8_CreateRejectsDuplicates ==
    [][ Serves("createQuote") =>
          LET before == StoredQuotes(ServedCall.store, pgQuotes, devQuoteStorage)
          IN  /\ ServedResult.kind = "quote" =>
                   \A i \in 1 .. Len(before) :
                     /\ before[i].id # ServedResult.val.id
                     /\ before[i].referenceNumber # ServedResult.val.referenceNumber
              /\ ServedResult.kind = "throw" =>
                   pgQuotes' = pgQuotes /\ devQuoteStorage' = devQuoteStorage
      ]_vars

\* What updateQuoteStatus does for the call a store serves in this step:
\* with a quote of that id stored it gives the quote with that id, status s
\* and the lastModifiedAt the call read on entry, whatever the status was
\* before; the quote it gives is stored, every quote with another id is as
\* before and no quote is added or removed. With no quote of that id stored
\* it gives null and both stores are as before.
UpdateServed ==
    LET id == ServedCall.id
        before == StoredQuotes(ServedCall.store, pgQuotes, devQuoteStorage)
        after == StoredQuotes(ServedCall.store, pgQuotes', devQuoteStorage')
    IN  IF \E i \in 1 .. Len(before) : before[i].id = id
        THEN /\ ServedResult.kind = "quote"
             /\ ServedResult.val.id = id
             /\ ServedResult.val.status = ServedCall.status
             /\ ServedResult.val.lastModifiedAt \in
                  {ServedCall.lastModifiedAt, JsDate(ServedCall.lastModifiedAt[2])}
             /\ \E i \in 1 .. Len(after) : after[i] = ServedResult.val
             /\ Len(after) = Len(before)
             /\ \A i \in 1 .. Len(before) :
                  before[i].id # id => after[i] = before[i]
        ELSE /\ ServedResult.kind = "null"
             /\ pgQuotes' = pgQuotes
             /\ devQuoteStorage' = devQuoteStorage

\* C16 as stated: every updateQuoteStatus(id, s) returns the quote with
\* status s, for each of the four s and whatever the status was, when a
\* quote of that id is stored, and not-found, changing no stored quote,
\* when none is.
C16_UpdateStatusAlwaysReturns ==
    [][ Serves("updateQuoteStatus") => UpdateServed ]_vars

\* C16, amended: an updateQuoteStatus(id, s) the database answers does so,
\* by what the store holds when the store serves it; a call whose connect()
\* or query() rejects, rejects with that error and both stores are as
\* before. A call served by the database returns, when it resumes, what
\* the UPDATE gave it.
C16_UpdateStatusSetsAnyStatus ==
    [][ /\ Serves("updateQuoteStatus") =>
             IF Lost(ServedResult)
             THEN /\ ServedCall.store = "pg"
                  /\ pgQuotes' = pgQuotes
                  /\ devQuoteStorage' = devQuoteStorage
             ELSE UpdateServed
        /\ ReturnsAsServed("updateQuoteStatus")
      ]_vars

\* The PostgreSQL table holds two quotes, and the call that was over last
\* returned one of them as expired, stamped with the second it was called in.
C16_Witness ==
    /\ args.op = "updateQuoteStatus"
    /\ args.store = "pg"
    /\ Len(pgQuotes) = 2
    /\ ret.kind = "quote"
    /\ ret.val.status = "expired"
    /\ ret.val.lastModifiedAt = JsDate(args.lastModifiedAt[2])

\* a is a later time than b; either may be an ISO string or a Date.
Later(a, b) ==
    /\ a[1] \in {"string", "Date"}
    /\ b[1] \in {"string", "Date"}
    /\ InstantOf(a[2]) > InstantOf(b[2])

\* C17: an updateQuoteStatus(id, 'approved') served while the quote of that
\* id is stored and pending, the clock having moved on between the reading
\* that gave the quote its createdAt and the reading the update took on
\* entry, returns that quote approved, its createdAt as it was and its
\* lastModifiedAt strictly later than its createdAt.
C17_ApprovedLaterThanCreated ==
    [][ /\ (Serves("updateQuoteStatus") /\ ServedCall.status = "approved") =>
             LET before == StoredQuotes(ServedCall.store, pgQuotes, devQuoteStorage)
                 i == FindIndexById(before, ServedCall.id)
             IN  ( /\ ServedResult.kind # "throw"
                   /\ i > 0
                   /\ before[i].status = "pending"
                   /\ Later(ServedCall.lastModifiedAt, before[i].createdAt) ) =>
                   /\ ServedResult.kind = "quote"
                   /\ ServedResult.val.status = "approved"
                   /\ ServedResult.val.createdAt[2] = before[i].createdAt[2]
                   /\ Later(ServedResult.val.lastModifiedAt, ServedResult.val.createdAt)
        /\ ReturnsAsServed("updateQuoteStatus")
      ]_vars

\* A quote created in the PostgreSQL table at 12:00:00 and still pending was
\* approved by a call made at 12:00:01, which has returned it.
C17_Witness ==
    /\ args.op = "updateQuoteStatus"
    /\ args.store = "pg"
    /\ args.status = "approved"
    /\ ret.kind = "quote"
    /\ ret.val.status = "approved"
    /\ ret.val.createdAt = JsDate(ToISOString(FirstYear, 0))
    /\ ret.val.lastModifiedAt = JsDate(ToISOString(FirstYear, 1))

\* The quotes of a list come latest createdAt first.
CreatedAtDescending(quotes) ==
    \A i, j \in 1 .. Len(quotes) :
      i < j => InstantOf(quotes[i].createdAt[2]) >= InstantOf(quotes[j].createdAt[2])

\* C18: the list getAllQuotes gives is ordered by createdAt descending, in
\* both stores; called with limit 1 and offset 0 on a store that is not
\* empty when it serves the call, it gives exactly one quote, and no stored
\* quote was created later than it.
C18_ListIsNewestFirst ==
    [][ (Serves("getAllQuotes") /\ ServedResult.kind = "array") =>
          LET stored == StoredQuotes(ServedCall.store, pgQuotes, devQuoteStorage)
          IN  /\ CreatedAtDescending(ServedResult.val)
              /\ (ServedCall.limit = 1 /\ ServedCall.offset = 0 /\ Len(stored) > 0) =>
                   /\ Len(ServedResult.val) = 1
                   /\ \A i \in 1 .. Len(stored) :
                        InstantOf(ServedResult.val[1].createdAt[2])
                          >= InstantOf(stored[i].createdAt[2])
      ]_vars

\* C20: a deleteQuote(id) the store has answered returns true exactly when a
\* quote with that id was stored; then one quote is gone, the one with that
\* id, every other quote is stored as before, and no quote with that id is
\* left for findQuoteById. When none was stored it returns false and both
\* stores are as before.
C20_DeleteRemovesExactlyThatQuote ==
    [][ (Serves("deleteQuote") /\ ~Lost(ServedResult)) =>
          LET id == ServedCall.id
              before == StoredQuotes(ServedCall.store, pgQuotes, devQuoteStorage)
              after == StoredQuotes(ServedCall.store, pgQuotes', devQuoteStorage')
          IN  /\ ServedResult.kind = "boolean"
              /\ ServedResult.val = (\E i \in 1 .. Len(before) : before[i].id = id)
              /\ IF ServedResult.val
                 THEN /\ Len(after) = Len(before) - 1
                      /\ after = SelectSeq(before, LAMBDA q : q.id # id)
                      /\ FindIndexById(after, id) = 0
                 ELSE /\ pgQuotes' = pgQuotes
                      /\ devQuoteStorage' = devQuoteStorage
      ]_vars

\* C21 as stated: findQuoteByReference of a reference under which no quote
\* was ever created in the store that serves the call returns null, at
\* every such call, never rejects, and leaves both stores as they were.
C21_FindUnknownReferenceNeverRejects ==
    [][ ( /\ Serves("findQuoteByReference")
          /\ ServedCall.reference \notin everCreated[ServedCall.store] ) =>
          /\ ServedResult = Resolved("findQuoteByReference", "null", JsNull)
          /\ pgQuotes' = pgQuotes
          /\ devQuoteStorage' = devQuoteStorage
          /\ everCreated' = everCreated
      ]_vars

\* C21, amended: such a call returns null whenever the store answers it, at
\* every such call, and leaves both stores as they were; not finding the
\* quote never makes it reject: it rejects only when connect() or the
\* query of the pool branch rejects. A call served by the database
\* returns, when it resumes, what the SELECT gave it.
C21_FindUnknownReferenceIsNull ==
    [][ /\ ( /\ Serves("findQuoteByReference")
             /\ ServedCall.reference \notin everCreated[ServedCall.store] ) =>
             /\ \/ ServedResult = Resolved("findQuoteByReference", "null", JsNull)
                \/ Lost(ServedResult) /\ ServedCall.store = "pg"
             /\ pgQuotes' = pgQuotes
             /\ devQuoteStorage' = devQuoteStorage
             /\ everCreated' = everCreated
        /\ ReturnsAsServed("findQuoteByReference")
      ]_vars

\* The fourth call of a run looked up a reference never created in the
\* PostgreSQL table, which holds a quote under another reference, and
\* resolved with null.
C21_Witness ==
    /\ args.op = "findQuoteByReference"
    /\ args.store = "pg"
    /\ args.n = 4
    /\ Len(pgQuotes) = 1
    /\ args.reference \notin everCreated.pg
    /\ ret.kind = "null"

\* The amount a number, or the text of a DECIMAL(10,2) without cents, names.
AmountOf(v) ==
    IF v[1] = "number" THEN DecimalValue(v[2])
    ELSE DecimalValue(SubSeq(v[2], 1, Len(v[2]) - 3))

\* Two values of an optional field agree: both absent (undefined or null), or
\* naming the same instant or text.
SameOptional(a, b) ==
    IF a \in {JsUndefinedValue, JsNull} \/ b \in {JsUndefinedValue, JsNull}
    THEN a \in {JsUndefinedValue, JsNull} /\ b \in {JsUndefinedValue, JsNull}
    ELSE a[2] = b[2]

\* r is q in every field, decimals compared by amount and timestamps by the
\* instant they name.
SameQuote(r, q) ==
    /\ r.id = q.id
    /\ r.referenceNumber = q.referenceNumber
    /\ r.customerData = q.customerData
    /\ r.items = q.items
    /\ AmountOf(r.subtotal) = AmountOf(q.subtotal)
    /\ AmountOf(r.total) = AmountOf(q.total)
    /\ r.currency = q.currency
    /\ r.status = q.status
    /\ SameOptional(r.comments, q.comments)
    /\ r.createdAt[2] = q.createdAt[2]
    /\ r.expiresAt[2] = q.expiresAt[2]
    /\ SameOptional(r.lastModifiedAt, q.lastModifiedAt)

\* C22: a findQuoteById(q.id) served next after a createQuote(q) that
\* resolved was over, by the same store, and answered by
\* it, returns a quote equal to q in every field, up to the form in which
\* decimals and timestamps come back from the store.
C22_CreateThenFindByIdRoundTrip ==
    [][ ( /\ args.op = "createQuote"
          /\ ret.kind = "quote"
          /\ Serves("findQuoteById")
          /\ ServedCall.id = args.quote.id
          /\ ServedCall.store = args.store
          /\ ~Lost(ServedResult) ) =>
          /\ ServedResult.kind = "quote"
          /\ SameQuote(ServedResult.val, args.quote)
      ]_vars

\* C24: the store is chosen once: quotes are never written through both
\* stores in one run, and a findQuoteByReference for a reference number some
\* createQuote has stored, when it is answered, is served by the store that
\* createQuote wrote to.
C24_StoreFixedAtStartup ==
    [][ /\ everCreated'.pg = {} \/ everCreated'.dev = {}
        /\ ( /\ Serves("findQuoteByReference")
             /\ ~Lost(ServedResult)
             /\ ServedCall.reference \in everCreated'.pg \cup everCreated'.dev ) =>
             ServedCall.reference \in everCreated'[ServedCall.store]
      ]_vars

\* The calls the two stores were asked agree up to the i-th, and the
\* database answered each of them.
SameCallsUpTo(i) ==
    \A j \in 1 .. i :
      /\ served.pg[j].call = served.dev[j].call
      /\ served.pg[j].outcome.kind = "throw" => ~served.pg[j].outcome.lost

\* C25: asked the same operations from empty, one after another, the two
\* stores answer the same: whenever the first i calls served by PostgreSQL
\* and the first i calls served by the array are the same calls, the i-th
\* outcomes are the same.
C25_StoresAnswerAlike ==
    \A i \in 1 .. Min(Len(served.pg), Len(served.dev)) :
        SameCallsUpTo(i) => served.pg[i].outcome = served.dev[i].outcome

\* The fields updateQuoteStatus writes, by their names in either store.
Overlay == {"status", "lastModifiedAt", "last_modified_at"}

\* A stored quote less those fields.
Snapshot(q) == [f \in DOMAIN q \ Overlay |-> q[f]]

\* From store to after: no stored quote's snapshot has changed, a quote was
\* added at most at the end, quotes that went were removed whole, and a quote
\* that differs at all is the one with the id the call of updateQuoteStatus
\* named.
OnlyOverlayChanged(store, after, a) ==
    IF Len(after) < Len(store)
    THEN /\ a.op = "deleteQuote"
         /\ \A i \in 1 .. Len(after) : \E j \in 1 .. Len(store) : after[i] = store[j]
    ELSE \A i \in 1 .. Len(store) :
           /\ Snapshot(after[i]) = Snapshot(store[i])
           /\ after[i] # store[i] => a.op = "updateQuoteStatus" /\ store[i].id = a.id

\* C26: no step changes any field of a stored quote other than status and
\* lastModifiedAt (so not id, referenceNumber, customer, items, subtotal,
\* total or createdAt), and those two change only as a store serves an
\* updateQuoteStatus, and only in the quote with the id that call named,
\* every other quote staying as it was.
C26_SnapshotIsImmutable ==
    [][ /\ OnlyOverlayChanged(pgQuotes, pgQuotes', ServedCall)
        /\ OnlyOverlayChanged(devQuoteStorage, devQuoteStorage', ServedCall)
        /\ (pgQuotes' # pgQuotes \/ devQuoteStorage' # devQuoteStorage) =>
             \E op \in {"createQuote", "updateQuoteStatus", "deleteQuote"} : Serves(op)
      ]_vars

\* Two quotes are stored, updateQuoteStatus has just approved the second and
\* the first is still pending.
C26_Witness ==
    /\ args.op = "updateQuoteStatus"
    /\ args.store = "pg"
    /\ Len(pgQuotes) = 2
    /\ args.id = pgQuotes[2].id
    /\ args.status = "approved"
    /\ ret.kind = "quote"
    /\ pgQuotes[2].status = "approved"
    /\ pgQuotes[2].last_modified_at = PgTimestamp(args.lastModifiedAt)
    /\ pgQuotes[1].status = "pending"

\* The calls that hold a client of the pool: those waiting for a query or
\* to resume after it.
Holding == { f \in flight : f.pc \in {"query", "resume"} }

\* C29: the clients checked out are those of the calls that have their
\* client and are not over yet, one each: every call served by the pool has
\* released its client, once, by the time it returns or throws, and with no
\* call in flight no client is checked out.
C29_ClientsAreReleased == checkedOut = Cardinality(Holding)

\* A call served by the pool has rejected because its query failed, no call
\* is in flight and no client is checked out.
C29_Witness ==
    /\ args.op \in ServiceOps
    /\ args.store = "pg"
    /\ ret.kind = "throw"
    /\ ret.val = QueryFailed
    /\ flight = {}
    /\ checkedOut = 0

====
